---------------------------- MODULE Spec2Model ----------------------------
(***************************************************************************)
(* Model of the USB PD specification parser (src/usb_pd_parser):           *)
(*   - TOCParser           parsers/toc_parser.py                           *)
(*   - DocumentParser      parsers/document_parser.py                      *)
(*   - ValidationReport    validators/validation_report.py                 *)
(*   - USBPDSpecificationParser.parse_pdf   main.py                        *)
(*                                                                         *)
(* Conventions.                                                            *)
(*   Python str      a sequence of one-character strings (<<"2",".","1">>) *)
(*   Optional[x]     <<>> for None, <<x>> for a present value              *)
(*   float score     an integer number of 1/10000 (0.7 is 7000); the       *)
(*                   arithmetic of the scores is exact in these units      *)
(*   title           a record [text, len, alpha, words, contains]: the     *)
(*                   stripped title, its length, its number of alphabetic  *)
(*                   characters, its lower-case words and the content-type *)
(*                   keywords that occur in it                             *)
(*   text            a sequence of lines, each a line of LinePool, which   *)
(*                   records what the compiled regular expressions of the  *)
(*                   parsers find on that line                             *)
(***************************************************************************)
EXTENDS Integers, Sequences, FiniteSets, TLC

VARIABLES
    toc_input,      \* text handed to TOCParser.parse_toc_text
    toc_parser,     \* TOCParser object: toc_entries, parsing_stats
    toc_return,     \* outcome of the parse_toc_text call
    doc_input,      \* arguments handed to DocumentParser.parse_document_sections
    doc_parser,     \* DocumentParser object: document_sections, parsing_stats
    doc_return,     \* outcome of the parse_document_sections call
    tags_shared,    \* for each section of the DocumentParser, whether its tags
                    \* are the list object of its ToC entry
    val_input,      \* arguments handed to ValidationReport.validate_parsing_results
    validation_results, \* ValidationReport.validation_results
    val_return,     \* outcome of the validate_parsing_results call
    pdf,            \* the PDF file handed to parse_pdf (environment)
    pc,             \* position of parse_pdf in its sequence of steps
    parsing_results,\* USBPDSpecificationParser.parsing_results
    output_files,   \* the JSONL files of the output directory, a list of lines each
    pipeline_return \* value returned by parse_pdf

vars == <<toc_input, toc_parser, toc_return, doc_input, doc_parser, doc_return, tags_shared,
          val_input, validation_results, val_return, pdf, pc, parsing_results,
          output_files, pipeline_return>>

-----------------------------------------------------------------------------
(* Python values *)

None == <<>>
Some(x) == <<x>>
IsNone(o) == o = <<>>
Get(o) == o[1]

Min(a, b) == IF a <= b THEN a ELSE b
Max(a, b) == IF a >= b THEN a ELSE b
Abs(a) == IF a >= 0 THEN a ELSE 0 - a

RECURSIVE SumSeq(_)
SumSeq(s) == IF s = <<>> THEN 0 ELSE Head(s) + SumSeq(Tail(s))

Digits == {"0", "1", "2", "3", "4", "5", "6", "7", "8", "9"}

\* Characters in code point order (only the relative order is used).
CodePoints ==
    <<" ", "-", ".", "0", "1", "2", "3", "4", "5", "6", "7", "8", "9", ":",
      "A", "B", "C", "D", "E", "F", "G", "H", "I", "J", "K", "L", "M", "N",
      "O", "P", "Q", "R", "S", "T", "U", "V", "W", "X", "Y", "Z",
      "a", "b", "c", "d", "e", "f", "g", "h", "i", "j", "k", "l", "m", "n",
      "o", "p", "q", "r", "s", "t", "u", "v", "w", "x", "y", "z">>

Ord(c) == CHOOSE i \in 1..Len(CodePoints) : CodePoints[i] = c

DigitValue(c) == Ord(c) - Ord("0")

\* int(s) of a string of decimal digits
RECURSIVE ParseInt(_)
ParseInt(s) ==
    IF s = <<>> THEN 0
    ELSE 10 * ParseInt(SubSeq(s, 1, Len(s) - 1)) + DigitValue(s[Len(s)])

\* s.split(sep) for a one-character separator
RECURSIVE Split(_, _)
Split(s, sep) ==
    IF \A i \in 1..Len(s) : s[i] # sep THEN <<s>>
    ELSE LET i == CHOOSE k \in 1..Len(s) :
                      s[k] = sep /\ \A j \in 1..(k - 1) : s[j] # sep
         IN  <<SubSeq(s, 1, i - 1)>> \o Split(SubSeq(s, i + 1, Len(s)), sep)

\* sep.join(parts)
RECURSIVE Join(_, _)
Join(parts, sep) ==
    IF parts = <<>> THEN <<>>
    ELSE IF Len(parts) = 1 THEN parts[1]
    ELSE parts[1] \o <<sep>> \o Join(Tail(parts), sep)

\* s.count(c)
CountChar(s, c) == Cardinality({i \in 1..Len(s) : s[i] = c})

\* s.startswith(prefix)
StartsWith(s, prefix) ==
    Len(s) >= Len(prefix) /\ SubSeq(s, 1, Len(prefix)) = prefix

IsDigits(s) == Len(s) > 0 /\ \A i \in 1..Len(s) : s[i] \in Digits

\* re.match(r'^\d+(\.\d+)*$', s)
MatchesDotted(s) ==
    LET parts == Split(s, ".") IN \A i \in 1..Len(parts) : IsDigits(parts[i])

\* re.match(r'^\d+(\.\d+)+$', s)
MatchesDottedSub(s) == MatchesDotted(s) /\ Len(Split(s, ".")) >= 2

\* The literal prefixes the code tests with startswith
kwAppendix == <<"A", "p", "p", "e", "n", "d", "i", "x">>
kwAPPENDIX == <<"A", "P", "P", "E", "N", "D", "I", "X">>
kwChapter == <<"C", "h", "a", "p", "t", "e", "r">>
kwCHAPTER == <<"C", "H", "A", "P", "T", "E", "R">>
kwTable == <<"T", "a", "b", "l", "e">>
kwFigure == <<"F", "i", "g", "u", "r", "e">>
kwREF == <<"R", "E", "F">>

-----------------------------------------------------------------------------
(* TOCParser: hierarchy and ordering of section ids *)

\* the level without the "+ 1"
CalculateLevelDotsOnly(section_id) ==
    IF StartsWith(section_id, kwAppendix) \/ StartsWith(section_id, kwAPPENDIX) THEN 1
    ELSE IF StartsWith(section_id, kwChapter) \/ StartsWith(section_id, kwCHAPTER) THEN 1
    ELSE IF StartsWith(section_id, kwTable) \/ StartsWith(section_id, kwFigure) THEN 3
    ELSE IF section_id = kwREF THEN 1
    ELSE IF MatchesDotted(section_id) THEN CountChar(section_id, ".")
    ELSE 1

\* TOCParser._calculate_level
CalculateLevel(section_id) ==
    IF StartsWith(section_id, kwAppendix) \/ StartsWith(section_id, kwAPPENDIX) THEN 1
    ELSE IF StartsWith(section_id, kwChapter) \/ StartsWith(section_id, kwCHAPTER) THEN 1
    ELSE IF StartsWith(section_id, kwTable) \/ StartsWith(section_id, kwFigure) THEN 3
    ELSE IF section_id = kwREF THEN 1
    ELSE IF MatchesDotted(section_id) THEN CountChar(section_id, ".") + 1
    ELSE 1

\* TOCParser._find_parent_id
FindParentId(section_id) ==
    IF \/ StartsWith(section_id, kwAppendix) \/ StartsWith(section_id, kwAPPENDIX)
       \/ StartsWith(section_id, kwChapter) \/ StartsWith(section_id, kwCHAPTER)
       \/ StartsWith(section_id, kwREF)
    THEN None
    ELSE IF MatchesDottedSub(section_id)
    THEN LET parts == Split(section_id, ".")
         IN  IF Len(parts) > 1
             THEN Some(Join(SubSeq(parts, 1, Len(parts) - 1), "."))
             ELSE None
    ELSE None

\* Elements of a Python sort key: an int or a str
IntElem(n) == [t |-> "int", n |-> n, s |-> <<>>]
StrElem(s) == [t |-> "str", n |-> 0, s |-> s]

RECURSIVE PadKey(_)
PadKey(parts) == IF Len(parts) < 5 THEN PadKey(Append(parts, IntElem(0))) ELSE parts

\* TOCParser._section_sort_key
SectionSortKey(section_id) ==
    IF StartsWith(section_id, kwAppendix) \/ StartsWith(section_id, kwAPPENDIX)
    THEN <<IntElem(1000), StrElem(section_id)>>
    ELSE IF section_id = kwREF
    THEN <<IntElem(2000), StrElem(section_id)>>
    ELSE IF StartsWith(section_id, kwTable) \/ StartsWith(section_id, kwFigure)
    THEN <<IntElem(3000), StrElem(section_id)>>
    ELSE IF MatchesDotted(section_id)
    THEN LET parts == Split(section_id, ".")
         IN  PadKey([i \in 1..Len(parts) |-> IntElem(ParseInt(parts[i]))])
    ELSE <<IntElem(5000), StrElem(section_id)>>

\* a < b for two Python str: "lt", "eq" or "gt"
RECURSIVE CompareStr(_, _)
CompareStr(a, b) ==
    IF a = <<>> /\ b = <<>> THEN "eq"
    ELSE IF a = <<>> THEN "lt"
    ELSE IF b = <<>> THEN "gt"
    ELSE IF Head(a) = Head(b) THEN CompareStr(Tail(a), Tail(b))
    ELSE IF Ord(Head(a)) < Ord(Head(b)) THEN "lt" ELSE "gt"

\* a < b for two key elements; an int against a str raises TypeError
CompareElem(a, b) ==
    IF a.t # b.t THEN "TypeError"
    ELSE IF a.t = "int"
    THEN (IF a.n < b.n THEN "lt" ELSE IF a.n = b.n THEN "eq" ELSE "gt")
    ELSE CompareStr(a.s, b.s)

\* x < y for two Python tuples: the first differing elements decide
RECURSIVE CompareKey(_, _)
CompareKey(x, y) ==
    IF x = <<>> /\ y = <<>> THEN "eq"
    ELSE IF x = <<>> THEN "lt"
    ELSE IF y = <<>> THEN "gt"
    ELSE IF Head(x) = Head(y) THEN CompareKey(Tail(x), Tail(y))
    ELSE CompareElem(Head(x), Head(y))

\* list.sort(key=...) / sorted(..., key=...) on a sequence of [key, item]:
\* stable; a comparison that raises makes the sort raise.
RECURSIVE InsertByKey(_, _)
InsertByKey(sorted, e) ==
    IF sorted = <<>> THEN [raised |-> FALSE, v |-> <<e>>]
    ELSE LET last == sorted[Len(sorted)]
             c == CompareKey(e.key, last.key)
         IN  IF c = "TypeError" THEN [raised |-> TRUE, v |-> <<>>]
             ELSE IF c = "lt"
             THEN LET r == InsertByKey(SubSeq(sorted, 1, Len(sorted) - 1), e)
                  IN  IF r.raised THEN r
                      ELSE [raised |-> FALSE, v |-> Append(r.v, last)]
             ELSE [raised |-> FALSE, v |-> Append(sorted, e)]

RECURSIVE SortByKey(_)
SortByKey(s) ==
    IF s = <<>> THEN [raised |-> FALSE, v |-> <<>>]
    ELSE LET r == SortByKey(SubSeq(s, 1, Len(s) - 1))
         IN  IF r.raised THEN r ELSE InsertByKey(r.v, s[Len(s)])

-----------------------------------------------------------------------------
(* Lines of text and what the regular expressions find on them.            *)
(*   raw       the matches of TOCParser.all_patterns on the line, in the   *)
(*             order of the patterns, with their groups                    *)
(*   noise     TOCParser._is_noise_line                                    *)
(*   words, tables, figures, code, sm, non_ascii                           *)
(*             the counts DocumentParser._analyze_content takes on it      *)
(*   hdr       the DocumentParser.section_header_patterns (0..3) matching  *)
(*   heading   the section id the line starts with, followed by white      *)
(*             space (lower case: the search ignores case), whether a      *)
(*             letter follows, and the titles whose first 20 characters    *)
(*             follow                                                      *)
(*   toc_ind, page_ref, short                                              *)
(*             what PDFExtractor.find_table_of_contents_pages looks for    *)
(* No match of these lines spans two lines.                                *)

LinePool ==
    {
      [text |-> "2 Overview .... 15", noise |-> FALSE, len |-> 18,
       raw |-> <<[pattern |-> "standard", ids |-> << <<"2">> >>, title |-> [text |-> "Overview", len |-> 8, alpha |-> 8, words |-> {"overview"}, contains |-> {}],
            page |-> <<"1", "5">>],
           [pattern |-> "spaced", ids |-> << <<"2">> >>, title |-> [text |-> "Overview ....", len |-> 13, alpha |-> 8, words |-> {"overview"}, contains |-> {}],
            page |-> <<"1", "5">>]>>,
       words |-> 3, tables |-> 0, figures |-> 0, code |-> 0, sm |-> 0, non_ascii |-> 0,
       hdr |-> {0, 1}, heading |-> << [id |-> <<"2">>, cap |-> TRUE, titles |-> {"Overview"}] >>,
       toc_ind |-> {4}, page_ref |-> TRUE, short |-> TRUE],
      [text |-> "2.1 Basics .... 15", noise |-> FALSE, len |-> 18,
       raw |-> <<[pattern |-> "standard", ids |-> << <<"2", ".", "1">> >>, title |-> [text |-> "Basics", len |-> 6, alpha |-> 6, words |-> {"basics"}, contains |-> {}],
            page |-> <<"1", "5">>],
           [pattern |-> "spaced", ids |-> << <<"2", ".", "1">> >>, title |-> [text |-> "Basics ....", len |-> 11, alpha |-> 6, words |-> {"basics"}, contains |-> {}],
            page |-> <<"1", "5">>]>>,
       words |-> 4, tables |-> 0, figures |-> 0, code |-> 0, sm |-> 0, non_ascii |-> 0,
       hdr |-> {0, 1}, heading |-> << [id |-> <<"2", ".", "1">>, cap |-> TRUE, titles |-> {"Basics"}] >>,
       toc_ind |-> {5}, page_ref |-> TRUE, short |-> TRUE],
      [text |-> "2.2 Scope .... 22", noise |-> FALSE, len |-> 17,
       raw |-> <<[pattern |-> "standard", ids |-> << <<"2", ".", "2">> >>, title |-> [text |-> "Scope", len |-> 5, alpha |-> 5, words |-> {"scope"}, contains |-> {}],
            page |-> <<"2", "2">>],
           [pattern |-> "spaced", ids |-> << <<"2", ".", "2">> >>, title |-> [text |-> "Scope ....", len |-> 10, alpha |-> 5, words |-> {"scope"}, contains |-> {}],
            page |-> <<"2", "2">>]>>,
       words |-> 4, tables |-> 0, figures |-> 0, code |-> 0, sm |-> 0, non_ascii |-> 0,
       hdr |-> {0, 1}, heading |-> << [id |-> <<"2", ".", "2">>, cap |-> TRUE, titles |-> {"Scope"}] >>,
       toc_ind |-> {5}, page_ref |-> TRUE, short |-> TRUE],
      [text |-> "1 Introduction .... 15", noise |-> FALSE, len |-> 22,
       raw |-> <<[pattern |-> "standard", ids |-> << <<"1">> >>, title |-> [text |-> "Introduction", len |-> 12, alpha |-> 12, words |-> {"introduction"}, contains |-> {}],
            page |-> <<"1", "5">>],
           [pattern |-> "spaced", ids |-> << <<"1">> >>, title |-> [text |-> "Introduction ....", len |-> 17, alpha |-> 12, words |-> {"introduction"}, contains |-> {}],
            page |-> <<"1", "5">>]>>,
       words |-> 3, tables |-> 0, figures |-> 0, code |-> 0, sm |-> 0, non_ascii |-> 0,
       hdr |-> {0, 1}, heading |-> << [id |-> <<"1">>, cap |-> TRUE, titles |-> {"Introduction"}] >>,
       toc_ind |-> {4}, page_ref |-> TRUE, short |-> TRUE],
      [text |-> "1.0 General .... 15", noise |-> FALSE, len |-> 19,
       raw |-> <<[pattern |-> "standard", ids |-> << <<"1", ".", "0">> >>, title |-> [text |-> "General", len |-> 7, alpha |-> 7, words |-> {"general"}, contains |-> {}],
            page |-> <<"1", "5">>],
           [pattern |-> "spaced", ids |-> << <<"1", ".", "0">> >>, title |-> [text |-> "General ....", len |-> 12, alpha |-> 7, words |-> {"general"}, contains |-> {}],
            page |-> <<"1", "5">>]>>,
       words |-> 4, tables |-> 0, figures |-> 0, code |-> 0, sm |-> 0, non_ascii |-> 0,
       hdr |-> {0, 1}, heading |-> << [id |-> <<"1", ".", "0">>, cap |-> TRUE, titles |-> {"General"}] >>,
       toc_ind |-> {5}, page_ref |-> TRUE, short |-> TRUE],
      [text |-> "1000 Legacy Notes .... 15", noise |-> FALSE, len |-> 25,
       raw |-> <<[pattern |-> "standard", ids |-> << <<"1", "0", "0", "0">> >>, title |-> [text |-> "Legacy Notes", len |-> 12, alpha |-> 11, words |-> {"legacy", "notes"}, contains |-> {}],
            page |-> <<"1", "5">>],
           [pattern |-> "spaced", ids |-> << <<"1", "0", "0", "0">> >>, title |-> [text |-> "Legacy Notes ....", len |-> 17, alpha |-> 11, words |-> {"legacy", "notes"}, contains |-> {}],
            page |-> <<"1", "5">>]>>,
       words |-> 4, tables |-> 0, figures |-> 0, code |-> 0, sm |-> 0, non_ascii |-> 0,
       hdr |-> {0, 1}, heading |-> << [id |-> <<"1", "0", "0", "0">>, cap |-> TRUE, titles |-> {"Legacy Notes"}] >>,
       toc_ind |-> {4}, page_ref |-> TRUE, short |-> TRUE],
      [text |-> "Appendix A: Message Format .... 15", noise |-> FALSE, len |-> 34,
       raw |-> <<[pattern |-> "appendix", ids |-> << <<"A", "p", "p", "e", "n", "d", "i", "x", " ", "A">> >>, title |-> [text |-> "Message Format", len |-> 14, alpha |-> 13, words |-> {"format", "message"}, contains |-> {"format", "message"}],
            page |-> <<"1", "5">>]>>,
       words |-> 5, tables |-> 0, figures |-> 0, code |-> 0, sm |-> 0, non_ascii |-> 0,
       hdr |-> {3}, heading |-> <<>>,
       toc_ind |-> {}, page_ref |-> TRUE, short |-> TRUE],
      [text |-> "Chapter 1: Basics .... 15", noise |-> FALSE, len |-> 25,
       raw |-> <<[pattern |-> "chapter", ids |-> << <<"C", "h", "a", "p", "t", "e", "r", " ", "1">> >>, title |-> [text |-> "Basics", len |-> 6, alpha |-> 6, words |-> {"basics"}, contains |-> {}],
            page |-> <<"1", "5">>]>>,
       words |-> 4, tables |-> 0, figures |-> 0, code |-> 0, sm |-> 0, non_ascii |-> 0,
       hdr |-> {2}, heading |-> <<>>,
       toc_ind |-> {}, page_ref |-> TRUE, short |-> TRUE],
      [text |-> "Table 6-1: Header Format .... 15", noise |-> FALSE, len |-> 32,
       raw |-> <<[pattern |-> "table_figure", ids |-> << <<"T", "a", "b", "l", "e">>, <<"6", "-", "1">> >>, title |-> [text |-> "Header Format", len |-> 13, alpha |-> 12, words |-> {"format", "header"}, contains |-> {"format"}],
            page |-> <<"1", "5">>]>>,
       words |-> 6, tables |-> 1, figures |-> 0, code |-> 0, sm |-> 0, non_ascii |-> 0,
       hdr |-> {}, heading |-> <<>>,
       toc_ind |-> {}, page_ref |-> TRUE, short |-> TRUE],
      [text |-> "table 6-2: Header Format .... 15", noise |-> FALSE, len |-> 32,
       raw |-> <<[pattern |-> "table_figure", ids |-> << <<"t", "a", "b", "l", "e">>, <<"6", "-", "2">> >>, title |-> [text |-> "Header Format", len |-> 13, alpha |-> 12, words |-> {"format", "header"}, contains |-> {"format"}],
            page |-> <<"1", "5">>]>>,
       words |-> 6, tables |-> 1, figures |-> 0, code |-> 0, sm |-> 0, non_ascii |-> 0,
       hdr |-> {}, heading |-> <<>>,
       toc_ind |-> {}, page_ref |-> TRUE, short |-> TRUE],
      [text |-> "References .... 15", noise |-> FALSE, len |-> 18,
       raw |-> <<[pattern |-> "references", ids |-> <<  >>, title |-> [text |-> "References", len |-> 10, alpha |-> 10, words |-> {"references"}, contains |-> {}],
            page |-> <<"1", "5">>]>>,
       words |-> 2, tables |-> 0, figures |-> 0, code |-> 0, sm |-> 0, non_ascii |-> 0,
       hdr |-> {}, heading |-> <<>>,
       toc_ind |-> {}, page_ref |-> TRUE, short |-> TRUE],
      [text |-> "Figure 2-1: X .... 6000", noise |-> FALSE, len |-> 23,
       raw |-> <<[pattern |-> "table_figure", ids |-> << <<"F", "i", "g", "u", "r", "e">>, <<"2", "-", "1">> >>, title |-> [text |-> "X", len |-> 1, alpha |-> 1, words |-> {"x"}, contains |-> {}],
            page |-> <<"6", "0", "0", "0">>]>>,
       words |-> 5, tables |-> 0, figures |-> 1, code |-> 0, sm |-> 0, non_ascii |-> 0,
       hdr |-> {}, heading |-> <<>>,
       toc_ind |-> {}, page_ref |-> TRUE, short |-> TRUE],
      [text |-> "3 Overview .... 6000", noise |-> FALSE, len |-> 20,
       raw |-> <<[pattern |-> "standard", ids |-> << <<"3">> >>, title |-> [text |-> "Overview", len |-> 8, alpha |-> 8, words |-> {"overview"}, contains |-> {}],
            page |-> <<"6", "0", "0", "0">>],
           [pattern |-> "spaced", ids |-> << <<"3">> >>, title |-> [text |-> "Overview ....", len |-> 13, alpha |-> 8, words |-> {"overview"}, contains |-> {}],
            page |-> <<"6", "0", "0", "0">>]>>,
       words |-> 3, tables |-> 0, figures |-> 0, code |-> 0, sm |-> 0, non_ascii |-> 0,
       hdr |-> {0, 1}, heading |-> << [id |-> <<"3">>, cap |-> TRUE, titles |-> {"Overview"}] >>,
       toc_ind |-> {4}, page_ref |-> TRUE, short |-> TRUE],
      [text |-> "2.1.1 Power Delivery Contract Negotiation .... 1000", noise |-> FALSE, len |-> 51,
       raw |-> <<[pattern |-> "standard", ids |-> << <<"2", ".", "1", ".", "1">> >>, title |-> [text |-> "Power Delivery Contract Negotiation", len |-> 35, alpha |-> 32, words |-> {"contract", "delivery", "negotiation", "power"}, contains |-> {}],
            page |-> <<"1", "0", "0", "0">>],
           [pattern |-> "spaced", ids |-> << <<"2", ".", "1", ".", "1">> >>, title |-> [text |-> "Power Delivery Contract Negotiation ....", len |-> 40, alpha |-> 32, words |-> {"contract", "delivery", "negotiation", "power"}, contains |-> {}],
            page |-> <<"1", "0", "0", "0">>]>>,
       words |-> 8, tables |-> 0, figures |-> 0, code |-> 0, sm |-> 0, non_ascii |-> 0,
       hdr |-> {0, 1}, heading |-> << [id |-> <<"2", ".", "1", ".", "1">>, cap |-> TRUE, titles |-> {"Power Delivery Contract Negotiation"}] >>,
       toc_ind |-> {}, page_ref |-> TRUE, short |-> TRUE],
      [text |-> "4 Ab .... 3000", noise |-> FALSE, len |-> 14,
       raw |-> <<[pattern |-> "standard", ids |-> << <<"4">> >>, title |-> [text |-> "Ab", len |-> 2, alpha |-> 2, words |-> {"ab"}, contains |-> {}],
            page |-> <<"3", "0", "0", "0">>],
           [pattern |-> "spaced", ids |-> << <<"4">> >>, title |-> [text |-> "Ab ....", len |-> 7, alpha |-> 2, words |-> {"ab"}, contains |-> {}],
            page |-> <<"3", "0", "0", "0">>]>>,
       words |-> 3, tables |-> 0, figures |-> 0, code |-> 0, sm |-> 0, non_ascii |-> 0,
       hdr |-> {0, 1}, heading |-> << [id |-> <<"4">>, cap |-> TRUE, titles |-> {"Ab"}] >>,
       toc_ind |-> {4}, page_ref |-> TRUE, short |-> TRUE],
      [text |-> "Some stray text", noise |-> FALSE, len |-> 15,
       raw |-> <<>>,
       words |-> 3, tables |-> 0, figures |-> 0, code |-> 0, sm |-> 0, non_ascii |-> 0,
       hdr |-> {}, heading |-> <<>>,
       toc_ind |-> {}, page_ref |-> FALSE, short |-> TRUE],
      [text |-> "Contents", noise |-> TRUE, len |-> 8,
       raw |-> <<>>,
       words |-> 1, tables |-> 0, figures |-> 0, code |-> 0, sm |-> 0, non_ascii |-> 0,
       hdr |-> {}, heading |-> <<>>,
       toc_ind |-> {2}, page_ref |-> FALSE, short |-> FALSE],
      [text |-> "1 Introduction .... 2", noise |-> FALSE, len |-> 21,
       raw |-> <<[pattern |-> "standard", ids |-> << <<"1">> >>, title |-> [text |-> "Introduction", len |-> 12, alpha |-> 12, words |-> {"introduction"}, contains |-> {}],
            page |-> <<"2">>],
           [pattern |-> "spaced", ids |-> << <<"1">> >>, title |-> [text |-> "Introduction ....", len |-> 17, alpha |-> 12, words |-> {"introduction"}, contains |-> {}],
            page |-> <<"2">>]>>,
       words |-> 3, tables |-> 0, figures |-> 0, code |-> 0, sm |-> 0, non_ascii |-> 0,
       hdr |-> {0, 1}, heading |-> << [id |-> <<"1">>, cap |-> TRUE, titles |-> {"Introduction"}] >>,
       toc_ind |-> {4}, page_ref |-> TRUE, short |-> TRUE],
      [text |-> "1.1 Scope .... 2", noise |-> FALSE, len |-> 16,
       raw |-> <<[pattern |-> "standard", ids |-> << <<"1", ".", "1">> >>, title |-> [text |-> "Scope", len |-> 5, alpha |-> 5, words |-> {"scope"}, contains |-> {}],
            page |-> <<"2">>],
           [pattern |-> "spaced", ids |-> << <<"1", ".", "1">> >>, title |-> [text |-> "Scope ....", len |-> 10, alpha |-> 5, words |-> {"scope"}, contains |-> {}],
            page |-> <<"2">>]>>,
       words |-> 4, tables |-> 0, figures |-> 0, code |-> 0, sm |-> 0, non_ascii |-> 0,
       hdr |-> {0, 1}, heading |-> << [id |-> <<"1", ".", "1">>, cap |-> TRUE, titles |-> {"Scope"}] >>,
       toc_ind |-> {5}, page_ref |-> TRUE, short |-> TRUE],
      [text |-> "2 Message Format .... 3", noise |-> FALSE, len |-> 23,
       raw |-> <<[pattern |-> "standard", ids |-> << <<"2">> >>, title |-> [text |-> "Message Format", len |-> 14, alpha |-> 13, words |-> {"format", "message"}, contains |-> {"format", "message"}],
            page |-> <<"3">>],
           [pattern |-> "spaced", ids |-> << <<"2">> >>, title |-> [text |-> "Message Format ....", len |-> 19, alpha |-> 13, words |-> {"format", "message"}, contains |-> {"format", "message"}],
            page |-> <<"3">>]>>,
       words |-> 4, tables |-> 0, figures |-> 0, code |-> 0, sm |-> 0, non_ascii |-> 0,
       hdr |-> {0, 1}, heading |-> << [id |-> <<"2">>, cap |-> TRUE, titles |-> {"Message Format"}] >>,
       toc_ind |-> {4}, page_ref |-> TRUE, short |-> TRUE],
      [text |-> "3 Power Rules .... 3", noise |-> FALSE, len |-> 20,
       raw |-> <<[pattern |-> "standard", ids |-> << <<"3">> >>, title |-> [text |-> "Power Rules", len |-> 11, alpha |-> 10, words |-> {"power", "rules"}, contains |-> {}],
            page |-> <<"3">>],
           [pattern |-> "spaced", ids |-> << <<"3">> >>, title |-> [text |-> "Power Rules ....", len |-> 16, alpha |-> 10, words |-> {"power", "rules"}, contains |-> {}],
            page |-> <<"3">>]>>,
       words |-> 4, tables |-> 0, figures |-> 0, code |-> 0, sm |-> 0, non_ascii |-> 0,
       hdr |-> {0, 1}, heading |-> << [id |-> <<"3">>, cap |-> TRUE, titles |-> {"Power Rules"}] >>,
       toc_ind |-> {4}, page_ref |-> TRUE, short |-> TRUE],
      [text |-> "4 Source Rules .... 25", noise |-> FALSE, len |-> 22,
       raw |-> <<[pattern |-> "standard", ids |-> << <<"4">> >>, title |-> [text |-> "Source Rules", len |-> 12, alpha |-> 11, words |-> {"rules", "source"}, contains |-> {}],
            page |-> <<"2", "5">>],
           [pattern |-> "spaced", ids |-> << <<"4">> >>, title |-> [text |-> "Source Rules ....", len |-> 17, alpha |-> 11, words |-> {"rules", "source"}, contains |-> {}],
            page |-> <<"2", "5">>]>>,
       words |-> 4, tables |-> 0, figures |-> 0, code |-> 0, sm |-> 0, non_ascii |-> 0,
       hdr |-> {0, 1}, heading |-> << [id |-> <<"4">>, cap |-> TRUE, titles |-> {"Source Rules"}] >>,
       toc_ind |-> {4}, page_ref |-> TRUE, short |-> TRUE],
      [text |-> "4.1 Fixed Supply .... 27", noise |-> FALSE, len |-> 24,
       raw |-> <<[pattern |-> "standard", ids |-> << <<"4", ".", "1">> >>, title |-> [text |-> "Fixed Supply", len |-> 12, alpha |-> 11, words |-> {"fixed", "supply"}, contains |-> {}],
            page |-> <<"2", "7">>],
           [pattern |-> "spaced", ids |-> << <<"4", ".", "1">> >>, title |-> [text |-> "Fixed Supply ....", len |-> 17, alpha |-> 11, words |-> {"fixed", "supply"}, contains |-> {}],
            page |-> <<"2", "7">>]>>,
       words |-> 5, tables |-> 0, figures |-> 0, code |-> 0, sm |-> 0, non_ascii |-> 0,
       hdr |-> {0, 1}, heading |-> << [id |-> <<"4", ".", "1">>, cap |-> TRUE, titles |-> {"Fixed Supply"}] >>,
       toc_ind |-> {5}, page_ref |-> TRUE, short |-> TRUE],
      [text |-> "5 Cable Plug .... 30", noise |-> FALSE, len |-> 20,
       raw |-> <<[pattern |-> "standard", ids |-> << <<"5">> >>, title |-> [text |-> "Cable Plug", len |-> 10, alpha |-> 9, words |-> {"cable", "plug"}, contains |-> {}],
            page |-> <<"3", "0">>],
           [pattern |-> "spaced", ids |-> << <<"5">> >>, title |-> [text |-> "Cable Plug ....", len |-> 15, alpha |-> 9, words |-> {"cable", "plug"}, contains |-> {}],
            page |-> <<"3", "0">>]>>,
       words |-> 4, tables |-> 0, figures |-> 0, code |-> 0, sm |-> 0, non_ascii |-> 0,
       hdr |-> {0, 1}, heading |-> << [id |-> <<"5">>, cap |-> TRUE, titles |-> {"Cable Plug"}] >>,
       toc_ind |-> {4}, page_ref |-> TRUE, short |-> TRUE],
      [text |-> "1 Introduction", noise |-> FALSE, len |-> 14,
       raw |-> <<>>,
       words |-> 2, tables |-> 0, figures |-> 0, code |-> 0, sm |-> 0, non_ascii |-> 0,
       hdr |-> {0, 1}, heading |-> << [id |-> <<"1">>, cap |-> TRUE, titles |-> {"Introduction"}] >>,
       toc_ind |-> {4}, page_ref |-> FALSE, short |-> TRUE],
      [text |-> "1.1 Scope", noise |-> FALSE, len |-> 9,
       raw |-> <<>>,
       words |-> 3, tables |-> 0, figures |-> 0, code |-> 0, sm |-> 0, non_ascii |-> 0,
       hdr |-> {0, 1}, heading |-> << [id |-> <<"1", ".", "1">>, cap |-> TRUE, titles |-> {"Scope"}] >>,
       toc_ind |-> {5}, page_ref |-> FALSE, short |-> FALSE],
      [text |-> "2 Message Format", noise |-> FALSE, len |-> 16,
       raw |-> <<>>,
       words |-> 3, tables |-> 0, figures |-> 0, code |-> 0, sm |-> 0, non_ascii |-> 0,
       hdr |-> {0, 1}, heading |-> << [id |-> <<"2">>, cap |-> TRUE, titles |-> {"Message Format"}] >>,
       toc_ind |-> {4}, page_ref |-> FALSE, short |-> TRUE],
      [text |-> "3 Power Rules", noise |-> FALSE, len |-> 13,
       raw |-> <<>>,
       words |-> 3, tables |-> 0, figures |-> 0, code |-> 0, sm |-> 0, non_ascii |-> 0,
       hdr |-> {0, 1}, heading |-> << [id |-> <<"3">>, cap |-> TRUE, titles |-> {"Power Rules"}] >>,
       toc_ind |-> {4}, page_ref |-> FALSE, short |-> TRUE],
      [text |-> "4 Source Rules", noise |-> FALSE, len |-> 14,
       raw |-> <<>>,
       words |-> 3, tables |-> 0, figures |-> 0, code |-> 0, sm |-> 0, non_ascii |-> 0,
       hdr |-> {0, 1}, heading |-> << [id |-> <<"4">>, cap |-> TRUE, titles |-> {"Source Rules"}] >>,
       toc_ind |-> {4}, page_ref |-> FALSE, short |-> TRUE],
      [text |-> "5 Cable Plug", noise |-> FALSE, len |-> 12,
       raw |-> <<>>,
       words |-> 3, tables |-> 0, figures |-> 0, code |-> 0, sm |-> 0, non_ascii |-> 0,
       hdr |-> {0, 1}, heading |-> << [id |-> <<"5">>, cap |-> TRUE, titles |-> {"Cable Plug"}] >>,
       toc_ind |-> {4}, page_ref |-> FALSE, short |-> TRUE],
      [text |-> "<60 words>", noise |-> FALSE, len |-> 339,
       raw |-> <<>>,
       words |-> 60, tables |-> 0, figures |-> 0, code |-> 0, sm |-> 0, non_ascii |-> 0,
       hdr |-> {}, heading |-> <<>>,
       toc_ind |-> {}, page_ref |-> FALSE, short |-> FALSE],
      [text |-> "short note here", noise |-> FALSE, len |-> 15,
       raw |-> <<>>,
       words |-> 3, tables |-> 0, figures |-> 0, code |-> 0, sm |-> 0, non_ascii |-> 0,
       hdr |-> {}, heading |-> <<>>,
       toc_ind |-> {}, page_ref |-> FALSE, short |-> TRUE],
      [text |-> "Table 1: Header layout", noise |-> FALSE, len |-> 22,
       raw |-> <<>>,
       words |-> 4, tables |-> 1, figures |-> 0, code |-> 0, sm |-> 0, non_ascii |-> 0,
       hdr |-> {}, heading |-> <<>>,
       toc_ind |-> {}, page_ref |-> FALSE, short |-> TRUE],
      [text |-> "Byte 0: 0x1F Bit 3: 0x02", noise |-> FALSE, len |-> 24,
       raw |-> <<>>,
       words |-> 6, tables |-> 0, figures |-> 0, code |-> 4, sm |-> 0, non_ascii |-> 0,
       hdr |-> {}, heading |-> <<>>,
       toc_ind |-> {}, page_ref |-> FALSE, short |-> TRUE],
      [text |-> "State Idle go to state Ready", noise |-> FALSE, len |-> 28,
       raw |-> <<>>,
       words |-> 6, tables |-> 0, figures |-> 0, code |-> 0, sm |-> 3, non_ascii |-> 0,
       hdr |-> {}, heading |-> <<>>,
       toc_ind |-> {}, page_ref |-> FALSE, short |-> TRUE],
      [text |-> "USB PD Rev 3.1 draft", noise |-> FALSE, len |-> 20,
       raw |-> <<>>,
       words |-> 6, tables |-> 0, figures |-> 0, code |-> 0, sm |-> 0, non_ascii |-> 0,
       hdr |-> {}, heading |-> <<>>,
       toc_ind |-> {}, page_ref |-> FALSE, short |-> TRUE],
      [text |-> "<4 non-ASCII characters>", noise |-> FALSE, len |-> 4,
       raw |-> <<>>,
       words |-> 1, tables |-> 0, figures |-> 0, code |-> 0, sm |-> 0, non_ascii |-> 4,
       hdr |-> {}, heading |-> <<>>,
       toc_ind |-> {}, page_ref |-> FALSE, short |-> FALSE],
      [text |-> "", noise |-> TRUE, len |-> 0,
       raw |-> <<>>,
       words |-> 0, tables |-> 0, figures |-> 0, code |-> 0, sm |-> 0, non_ascii |-> 0,
       hdr |-> {}, heading |-> <<>>,
       toc_ind |-> {}, page_ref |-> FALSE, short |-> FALSE]
    }

Line(text) == CHOOSE l \in LinePool : l.text = text

-----------------------------------------------------------------------------
(* TOCParser: from text to entries *)

\* TOCParser.all_patterns, in the order they are applied
PatternNames ==
    <<"standard", "spaced", "appendix", "chapter", "indented", "table_figure",
      "references">>

ValidatedPatterns == {"standard", "spaced", "appendix", "chapter", "indented"}

RECURSIVE Concat(_)
Concat(seqs) == IF seqs = <<>> THEN <<>> ELSE Head(seqs) \o Concat(Tail(seqs))

\* TOCParser._preprocess_text: noise lines are dropped
PreprocessText(text) == SelectSeq(text, LAMBDA line : ~Line(line).noise)

\* offset of line k of the cleaned text (lines are joined with "\n")
LineStart(cleaned, k) == SumSeq([j \in 1..(k - 1) |-> Line(cleaned[j]).len + 1])

\* the matches of all patterns on line k, each with its span in the text.
\* The title groups [^\.]+? and [^0-9]+? can run over a line break, from a
\* line that starts an entry without finishing it; every line of LinePool
\* that starts an entry finishes it on the line, or is followed in the
\* texts by a line with a "." and a digit before any page number, so that
\* all matches lie within one line.
LineMatches(cleaned, k) ==
    LET At(line, start) ==
            [i \in 1..Len(line.raw) |->
                [pattern |-> line.raw[i].pattern,
                 ids     |-> line.raw[i].ids,
                 title   |-> line.raw[i].title,
                 page    |-> line.raw[i].page,
                 start   |-> start,
                 end     |-> start + line.len,
                 raw_line |-> line.text]]
    IN  At(Line(cleaned[k]), LineStart(cleaned, k))

\* TOCParser._collect_pattern_matches: pattern by pattern, in text order
CollectPatternMatches(cleaned) ==
    LET inText == Concat([k \in 1..Len(cleaned) |-> LineMatches(cleaned, k)])
    IN  Concat([p \in 1..Len(PatternNames) |->
                   SelectSeq(inText, LAMBDA m : m.pattern = PatternNames[p])])

\* TOCParser._validate_match
ValidateMatch(m) ==
    IF m.pattern \in ValidatedPatterns
    THEN /\ ~(ParseInt(m.page) < 1 \/ ParseInt(m.page) > 5000)
         /\ ~(m.title.len < 2 \/ m.title.len > 200)
         /\ ~(m.title.alpha * 10 < m.title.len * 3)
    ELSE TRUE

\* range(start, end + 1)
Span(m) == m.start..m.end

\* the loop without the test of used_positions: every valid match is kept
FilterWalkKeepingOverlaps(matches, filtered, used_positions) ==
    filtered \o SelectSeq(matches, ValidateMatch)

\* the loop of TOCParser._filter_matches over the position-sorted matches
RECURSIVE FilterWalk(_, _, _)
FilterWalk(matches, filtered, used_positions) ==
    IF matches = <<>> THEN filtered
    ELSE LET m == Head(matches)
         IN  IF Span(m) \cap used_positions # {}
             THEN FilterWalk(Tail(matches), filtered, used_positions)
             ELSE IF ValidateMatch(m)
             THEN FilterWalk(Tail(matches), Append(filtered, m),
                             used_positions \cup Span(m))
             ELSE FilterWalk(Tail(matches), filtered, used_positions)

\* TOCParser._filter_matches
FilterMatches(matches) ==
    LET Walk(sorted) == FilterWalk([i \in 1..Len(sorted) |-> sorted[i].item], <<>>, {})
    IN  Walk(SortByKey([i \in 1..Len(matches) |->
                           [key |-> <<IntElem(matches[i].start)>>,
                            item |-> matches[i]]]).v)

\* TOCParser._match_to_entry
MatchToEntry(m) ==
    LET section_id ==
            IF m.pattern \in {"standard", "spaced", "indented"} THEN m.ids[1]
            ELSE IF m.pattern \in {"appendix", "chapter"} THEN m.ids[1]
            ELSE IF m.pattern = "table_figure" THEN m.ids[1] \o <<" ">> \o m.ids[2]
            ELSE kwREF
    IN  [section_id |-> section_id,
         title |-> m.title,
         page |-> ParseInt(m.page),
         level |-> 0,
         parent_id |-> None,
         full_path |-> IF section_id # kwREF THEN <<section_id, m.title>> ELSE <<m.title>>,
         tags |-> {},
         confidence_score |-> 0,
         raw_line |-> m.raw_line]

\* the key of the sort in TOCParser._create_toc_entries
EntrySortKey(e) == <<IntElem(e.page)>> \o SectionSortKey(e.section_id)

\* the entries in the order of their matches, without the sort
CreateTocEntriesUnsorted(matches) ==
    [raised |-> FALSE, v |-> [i \in 1..Len(matches) |-> MatchToEntry(matches[i])]]

\* TOCParser._create_toc_entries; raised when the sort raises TypeError
CreateTocEntries(matches) ==
    LET Sorted(r) == [raised |-> r.raised, v |-> [i \in 1..Len(r.v) |-> r.v[i].item]]
        Sort(entries) ==
            Sorted(SortByKey([i \in 1..Len(entries) |->
                                 [key |-> EntrySortKey(entries[i]), item |-> entries[i]]]))
    IN  Sort([i \in 1..Len(matches) |-> MatchToEntry(matches[i])])

\* TOCParser._assign_hierarchical_structure, for one entry
AssignHierarchy(e) ==
    [e EXCEPT !.level = CalculateLevel(e.section_id),
              !.parent_id = FindParentId(e.section_id)]

\* a clamp that bounds the score from below only
ClampBelowOnly(score) == Max(0, score)

\* clamp of a score to [0.0, 1.0]: max(0.0, min(1.0, score))
Clamp(score) == Max(0, Min(10000, score))

\* TOCParser._calculate_confidence_scores, the score of one entry
TocConfidence(e) ==
    LET base == 7000
        numbering == IF MatchesDotted(e.section_id) THEN 2000 ELSE 0
        pages == Min(1000, Max(0, 10000 - 10 * Abs(e.page - 50)))
        formatting == IF 5 <= e.title.len /\ e.title.len <= 100 THEN 1000 ELSE 0
        penalty == IF e.title.len < 3 \/ e.title.len > 150 THEN 2000 ELSE 0
    IN  Clamp(base + numbering + pages + formatting - penalty)

\* TOCParser._generate_semantic_tags: tag_mapping
TagMapping ==
    << [words |-> {"power", "delivery", "pd"}, tags |-> {"power", "delivery"}],
       [words |-> {"message", "communication", "protocol"}, tags |-> {"communication", "protocol"}],
       [words |-> {"cable", "connector", "plug"}, tags |-> {"hardware", "cable"}],
       [words |-> {"voltage", "current", "electrical"}, tags |-> {"electrical"}],
       [words |-> {"contract", "negotiation", "capability"}, tags |-> {"negotiation", "contracts"}],
       [words |-> {"source", "sink", "provider", "consumer"}, tags |-> {"roles"}],
       [words |-> {"state", "machine", "transition"}, tags |-> {"state_machine"}],
       [words |-> {"table", "format", "structure"}, tags |-> {"data_structure"}],
       [words |-> {"error", "exception", "fault"}, tags |-> {"error_handling"}],
       [words |-> {"test", "compliance", "certification"}, tags |-> {"testing"}],
       [words |-> {"security", "authentication", "encryption"}, tags |-> {"security"}],
       [words |-> {"appendix", "reference", "index"}, tags |-> {"reference"}] >>

\* TOCParser._generate_semantic_tags, the tags of one entry (a sorted list
\* without repetitions, represented by its set of elements)
SemanticTags(e) ==
    UNION {TagMapping[i].tags : i \in {j \in 1..Len(TagMapping) :
                                          TagMapping[j].words \cap e.title.words # {}}}
    \cup (IF e.level = 1 THEN {"chapter"} ELSE IF e.level >= 3 THEN {"subsection"} ELSE {})

\* TOCParser.__init__
NewTocParser ==
    [toc_entries |-> <<>>,
     parsing_stats |-> [total_lines_processed |-> 0,
                        entries_found |-> 0,
                        pattern_matches |-> [i \in 1..Len(PatternNames) |-> 0]]]

\* TOCParser.parse_toc_text: the returned list, or raised, and the parser after it
\* Each stage is an operator of the value the stage before it produced.
ParseTocText(parser, text) ==
    LET Stats(all_matches) ==
            [parser.parsing_stats EXCEPT
                !.total_lines_processed = Max(1, Len(text)),
                !.pattern_matches =
                    [i \in 1..Len(PatternNames) |->
                        parser.parsing_stats.pattern_matches[i]
                        + Cardinality({k \in 1..Len(all_matches) :
                                          all_matches[k].pattern = PatternNames[i]})]]
        Structured(created) == [i \in 1..Len(created) |-> AssignHierarchy(created[i])]
        Scored(structured) ==
            [i \in 1..Len(structured) |->
                [structured[i] EXCEPT !.confidence_score = TocConfidence(structured[i])]]
        Tagged(scored) ==
            [i \in 1..Len(scored) |-> [scored[i] EXCEPT !.tags = SemanticTags(scored[i])]]
        Done(stats, tagged) ==
            [raised |-> FALSE, entries |-> tagged,
             parser |-> [toc_entries |-> tagged,
                         parsing_stats |-> [stats EXCEPT !.entries_found = Len(tagged)]]]
        Created(stats, created) ==
            IF created.raised
            THEN [raised |-> TRUE, entries |-> <<>>,
                  parser |-> [toc_entries |-> <<>>, parsing_stats |-> stats]]
            ELSE Done(stats, Tagged(Scored(Structured(created.v))))
        Matched(all_matches) ==
            Created(Stats(all_matches), CreateTocEntries(FilterMatches(all_matches)))
    IN  Matched(CollectPatternMatches(PreprocessText(text)))

-----------------------------------------------------------------------------
(* DocumentParser *)

\* page_content_map = {page.page_number: page for page in page_extractions}:
\* the text of the last extraction with that page number
MapKeys(page_extractions) ==
    {page_extractions[i].page_number : i \in 1..Len(page_extractions)}

MapText(page_extractions, page_num) ==
    LET last == CHOOSE i \in 1..Len(page_extractions) :
                    /\ page_extractions[i].page_number = page_num
                    /\ \A j \in (i + 1)..Len(page_extractions) :
                           page_extractions[j].page_number # page_num
    IN  page_extractions[last].text

SetMax(S) == CHOOSE x \in S : \A y \in S : y <= x

\* sorted(toc_entries, key=lambda x: x.page)
SortByPage(toc_entries) ==
    LET r == SortByKey([i \in 1..Len(toc_entries) |->
                           [key |-> <<IntElem(toc_entries[i].page)>>, item |-> toc_entries[i]]])
    IN  [i \in 1..Len(r.v) |-> r.v[i].item]

\* sorted(...) returns a new list and leaves its argument as it is
SortedBuiltin(toc_entries) ==
    [result |-> SortByPage(toc_entries), argument |-> toc_entries]

\* the list itself in the place of a copy of it
ListAlias(list) == [items |-> list, same_object |-> TRUE]

\* list.copy(): a new list object with the same items
ListCopy(list) == [items |-> list, same_object |-> FALSE]

\* the loop with "<" for "<=": an entry of the same level does not end the section
RECURSIVE EndPageScanStrict(_, _, _)
EndPageScanStrict(sorted_toc, current_level, j) ==
    IF j > Len(sorted_toc) THEN None
    ELSE IF sorted_toc[j].level < current_level THEN Some(sorted_toc[j].page - 1)
    ELSE EndPageScanStrict(sorted_toc, current_level, j + 1)

\* the loop of DocumentParser._determine_section_end_page, from index j on
RECURSIVE EndPageScan(_, _, _)
EndPageScan(sorted_toc, current_level, j) ==
    IF j > Len(sorted_toc) THEN None
    ELSE IF sorted_toc[j].level <= current_level THEN Some(sorted_toc[j].page - 1)
    ELSE EndPageScan(sorted_toc, current_level, j + 1)

\* the end page with the section's own page for a section without boundary
DetermineSectionEndPageClosing(current_toc, sorted_toc, current_index) ==
    LET Closed(end_page) == IF end_page = None THEN Some(current_toc.page) ELSE end_page
    IN  Closed(EndPageScan(sorted_toc, current_toc.level, current_index + 1))

\* DocumentParser._determine_section_end_page
DetermineSectionEndPage(current_toc, sorted_toc, current_index) ==
    EndPageScan(sorted_toc, current_toc.level, current_index + 1)

\* A piece of content: lines joined by "\n", and whether a "\n" follows them
Piece(lines, trail) == [lines |-> lines, trail |-> trail]

\* truth value of a Python str: non-empty
Truthy(piece) == piece.lines # <<>>

\* str.lower() of an ASCII string
LowerChar(c) ==
    IF Ord(c) >= Ord("A") /\ Ord(c) <= Ord("Z")
    THEN CodePoints[Ord(c) - Ord("A") + Ord("a")]
    ELSE c

Lower(s) == [i \in 1..Len(s) |-> LowerChar(s[i])]

\* whether the k-th pattern of _find_section_start_in_page matches at a line
StartPatternMatches(k, line, toc_entry) ==
    LET Matches(heading) ==
            /\ heading # <<>>
            /\ heading[1].id = Lower(toc_entry.section_id)
            /\ CASE k = 1 -> toc_entry.title.text \in heading[1].titles
                 [] k = 2 -> heading[1].cap
                 [] OTHER -> TRUE
    IN  Matches(Line(line).heading)

\* hits: the pairs <<k, i>> of a pattern k that matches at line i; the first
\* pattern with a match decides, at its first match
FirstHit(hits) ==
    CHOOSE h \in hits : \A g \in hits : h[1] < g[1] \/ (h[1] = g[1] /\ h[2] <= g[2])

\* DocumentParser._find_section_start_in_page
FindSectionStartInPage(page_content, toc_entry) ==
    LET lines == page_content.lines
        From(hits) ==
            IF hits = {} THEN page_content
            ELSE Piece(SubSeq(lines, FirstHit(hits)[2], Len(lines)), page_content.trail)
    IN  From({h \in (1..3) \X (1..Len(lines)) :
                 StartPatternMatches(h[1], lines[h[2]], toc_entry)})

\* DocumentParser._find_section_end_in_page
FindSectionEndInPage(page_content) ==
    LET lines == page_content.lines
        UpTo(i) == Piece(SubSeq(lines, 1, i - 1), IF i > 1 THEN TRUE ELSE FALSE)
        Before(hits) == IF hits = {} THEN page_content ELSE UpTo(FirstHit(hits)[2])
    IN  Before({h \in (0..3) \X (1..Len(lines)) : h[1] \in Line(lines[h[2]]).hdr})

\* the body of the loop of DocumentParser._extract_section_content
PageContent(page_num, start_page, actual_end, end_page, page_extractions, toc_entry) ==
    LET \* on the first page of the section, the page from its start on
        CutStart(page_content, section_start) ==
            IF page_num = start_page /\ Truthy(section_start)
            THEN section_start ELSE page_content
        \* on the last page of the section, the page up to its end
        CutEnd(page_content, section_end) ==
            IF page_num = actual_end /\ end_page # None /\ Truthy(section_end)
            THEN section_end ELSE page_content
        Ended(page_content) == CutEnd(page_content, FindSectionEndInPage(page_content))
        Started(page_content) ==
            Ended(CutStart(page_content, FindSectionStartInPage(page_content, toc_entry)))
    IN  Started(Piece(MapText(page_extractions, page_num), FALSE))

RECURSIVE ContentParts(_, _, _, _, _, _)
ContentParts(page_num, start_page, actual_end, end_page, page_extractions, toc_entry) ==
    IF page_num > actual_end THEN <<>>
    ELSE (IF page_num \in MapKeys(page_extractions)
          THEN <<PageContent(page_num, start_page, actual_end, end_page,
                             page_extractions, toc_entry)>>
          ELSE <<>>)
         \o ContentParts(page_num + 1, start_page, actual_end, end_page,
                         page_extractions, toc_entry)

\* DocumentParser._extract_section_content: the parts that are joined with
\* "\n\n"; raised (ValueError) when max() is taken of an empty page map
ExtractSectionContent(start_page, end_page, page_extractions, toc_entry) ==
    IF (end_page = None \/ Get(end_page) = 0) /\ MapKeys(page_extractions) = {}
    THEN [raised |-> TRUE, v |-> <<>>]
    ELSE LET actual_end == IF end_page = None \/ Get(end_page) = 0
                           THEN SetMax(MapKeys(page_extractions))
                           ELSE Get(end_page)
         IN  [raised |-> FALSE,
              v |-> ContentParts(start_page, start_page, actual_end, end_page,
                                 page_extractions, toc_entry)]

\* all lines of a content
ContentLines(content) == Concat([i \in 1..Len(content) |-> content[i].lines])

\* len(content)
ContentLen(content) ==
    SumSeq([i \in 1..Len(content) |->
               SumSeq([k \in 1..Len(content[i].lines) |-> Line(content[i].lines[k]).len])
               + (IF content[i].lines = <<>> THEN 0 ELSE Len(content[i].lines) - 1)
               + (IF content[i].trail THEN 1 ELSE 0)])
    + (IF content = <<>> THEN 0 ELSE 2 * (Len(content) - 1))

\* len(content.strip()): from the first line to the last one
StrippedLen(content) ==
    LET nonEmpty == {i \in 1..Len(content) : content[i].lines # <<>>}
    IN  IF nonEmpty = {} THEN 0
        ELSE LET a == CHOOSE i \in nonEmpty : \A j \in nonEmpty : i <= j
                 b == CHOOSE i \in nonEmpty : \A j \in nonEmpty : j <= i
                 inner == SubSeq(content, a, b)
             IN  ContentLen(inner) - (IF content[b].trail THEN 1 ELSE 0)

\* what the regular expressions find on the lines
Lines(lines) == [i \in 1..Len(lines) |-> Line(lines[i])]

\* the matches of one kind on the lines
Count(lines, field) == SumSeq([i \in 1..Len(lines) |-> lines[i][field]])

\* the highest score picked as the last of the types that have it
DetermineContentTypeLastMax(has_tables, has_figures, code_indicators, state_machine_indicators, word_count) ==
    LET type_scores ==
            << [type |-> "table", score |-> IF has_tables THEN 3 ELSE 0],
               [type |-> "figure", score |-> IF has_figures THEN 3 ELSE 0],
               [type |-> "code", score |-> Min(code_indicators, 5)],
               [type |-> "protocol", score |-> Min(code_indicators, 5)],
               [type |-> "state_machine", score |-> Min(state_machine_indicators * 2, 5)],
               [type |-> "text", score |-> Min(word_count \div 50, 5)] >>
        active_types == {i \in 1..Len(type_scores) : type_scores[i].score > 2}
        max_type == CHOOSE i \in 1..Len(type_scores) :
                        /\ \A j \in 1..Len(type_scores) : type_scores[j].score <= type_scores[i].score
                        /\ \A j \in (i + 1)..Len(type_scores) : type_scores[j].score < type_scores[i].score
    IN  IF Cardinality(active_types) > 2 THEN "mixed" ELSE type_scores[max_type].type

\* DocumentParser._determine_content_type
DetermineContentType(has_tables, has_figures, code_indicators, state_machine_indicators, word_count) ==
    LET type_scores ==
            << [type |-> "table", score |-> IF has_tables THEN 3 ELSE 0],
               [type |-> "figure", score |-> IF has_figures THEN 3 ELSE 0],
               [type |-> "code", score |-> Min(code_indicators, 5)],
               [type |-> "protocol", score |-> Min(code_indicators, 5)],
               [type |-> "state_machine", score |-> Min(state_machine_indicators * 2, 5)],
               [type |-> "text", score |-> Min(word_count \div 50, 5)] >>
        active_types == {i \in 1..Len(type_scores) : type_scores[i].score > 2}
        max_type == CHOOSE i \in 1..Len(type_scores) :
                        /\ \A j \in 1..Len(type_scores) : type_scores[j].score <= type_scores[i].score
                        /\ \A j \in 1..(i - 1) : type_scores[j].score < type_scores[i].score
    IN  IF Cardinality(active_types) > 2 THEN "mixed" ELSE type_scores[max_type].type

\* DocumentParser._analyze_content
AnalyzeContent(content) ==
    IF ContentLines(content) = <<>>
    THEN [content_type |-> "text", has_tables |-> FALSE, has_figures |-> FALSE,
          table_count |-> 0, figure_count |-> 0, word_count |-> 0,
          low_quality_indicators |-> 1]
    ELSE LET Analysis(lines) ==
                 LET table_count == Count(lines, "tables")
                     figure_count == Count(lines, "figures")
                     code_indicators == Count(lines, "code")
                     state_machine_indicators == Count(lines, "sm")
                     word_count == Count(lines, "words")
                     non_ascii == Count(lines, "non_ascii")
                 IN  [content_type |->
                          DetermineContentType(table_count > 0, figure_count > 0,
                              code_indicators, state_machine_indicators, word_count),
                      has_tables |-> table_count > 0,
                      has_figures |-> figure_count > 0,
                      table_count |-> table_count,
                      figure_count |-> figure_count,
                      word_count |-> word_count,
                      low_quality_indicators |->
                          (IF word_count < 10 THEN 1 ELSE 0)
                          + (IF StrippedLen(content) < 50 THEN 1 ELSE 0)
                          + (IF 10 * non_ascii > Max(1, ContentLen(content)) THEN 1 ELSE 0)]
         IN  Analysis(Lines(ContentLines(content)))

\* DocumentParser._calculate_section_confidence: type_title_matches
TypeTitleMatches(content_type) ==
    CASE content_type = "table" -> {"table", "format", "structure"}
      [] content_type = "figure" -> {"figure", "diagram", "illustration"}
      [] content_type = "protocol" -> {"protocol", "message", "communication"}
      [] content_type = "state_machine" -> {"state", "machine", "transition"}
      [] content_type = "code" -> {"format", "encoding", "field"}
      [] OTHER -> {}

\* DocumentParser._calculate_section_confidence
SectionConfidence(toc_entry, content_analysis) ==
    LET word_count == content_analysis.word_count
        substance == IF word_count > 50 THEN Min(2000, 20 * word_count) ELSE 0 - 3000
        structure == IF content_analysis.low_quality_indicators = 0 THEN 2000
                     ELSE 0 - content_analysis.low_quality_indicators * 1000
        matching == IF TypeTitleMatches(content_analysis.content_type)
                          \cap toc_entry.title.contains # {}
                    THEN 1000 ELSE 0
        score == 6000 + substance + structure + matching
    IN  Clamp((score + toc_entry.confidence_score) \div 2)

\* DocumentParser._create_document_section
CreateDocumentSection(toc_entry, start_page, end_page, content) ==
    LET Section(content_analysis) ==
            [section_id |-> toc_entry.section_id,
             title |-> toc_entry.title,
             page_start |-> start_page,
             page_end |-> end_page,
             level |-> toc_entry.level,
             parent_id |-> toc_entry.parent_id,
             full_path |-> toc_entry.full_path,
             content |-> content,
             content_type |-> content_analysis.content_type,
             has_tables |-> content_analysis.has_tables,
             has_figures |-> content_analysis.has_figures,
             table_count |-> content_analysis.table_count,
             figure_count |-> content_analysis.figure_count,
             word_count |-> content_analysis.word_count,
             tags |-> ListCopy(toc_entry.tags).items,
             confidence_score |-> SectionConfidence(toc_entry, content_analysis),
             extraction_notes |->
                 (IF end_page = None THEN <<"Section continues to end of document">> ELSE <<>>)
                 \o (IF content_analysis.low_quality_indicators > 0
                     THEN <<"Content quality indicators suggest extraction issues">>
                     ELSE <<>>)]
    IN  Section(AnalyzeContent(content))

\* for each section whether its tags are the list object of its entry
SharedTags(document_sections) ==
    [k \in 1..Len(document_sections) |-> ListCopy(document_sections[k].tags).same_object]

\* DocumentParser.__init__
NewDocumentParser ==
    [document_sections |-> <<>>,
     parsing_stats |-> [total_sections_attempted |-> 0,
                        sections_successfully_parsed |-> 0,
                        content_extraction_errors |-> 0,
                        boundary_detection_warnings |-> 0,
                        warnings |-> <<>>]]

\* the loop without the try: the first entry that fails ends it
RECURSIVE SectionLoopStopping(_, _, _, _)
SectionLoopStopping(parser, sorted_toc, page_extractions, i) ==
    IF i > Len(sorted_toc) THEN parser
    ELSE LET toc_entry == sorted_toc[i]
             Extracted(end_page, section_content) ==
                 IF section_content.raised
                 THEN [parser EXCEPT
                          !.parsing_stats.content_extraction_errors = @ + 1,
                          !.parsing_stats.warnings = Append(@, toc_entry.section_id)]
                 ELSE SectionLoopStopping(
                          [parser EXCEPT
                              !.document_sections =
                                  Append(@, CreateDocumentSection(toc_entry, toc_entry.page,
                                                                  end_page, section_content.v)),
                              !.parsing_stats.sections_successfully_parsed = @ + 1],
                          sorted_toc, page_extractions, i + 1)
             Ended(end_page) ==
                 Extracted(end_page, ExtractSectionContent(toc_entry.page, end_page,
                                                           page_extractions, toc_entry))
         IN  Ended(DetermineSectionEndPage(toc_entry, sorted_toc, i))

\* the loop of DocumentParser.parse_document_sections, from index i on
RECURSIVE SectionLoop(_, _, _, _)
SectionLoop(parser, sorted_toc, page_extractions, i) ==
    IF i > Len(sorted_toc) THEN parser
    ELSE LET toc_entry == sorted_toc[i]
             start_page == toc_entry.page
             Extracted(end_page, section_content) ==
                 IF section_content.raised
                 THEN [parser EXCEPT
                          !.parsing_stats.content_extraction_errors = @ + 1,
                          !.parsing_stats.warnings = Append(@, toc_entry.section_id)]
                 ELSE [parser EXCEPT
                          !.document_sections =
                              Append(@, CreateDocumentSection(toc_entry, start_page, end_page,
                                                              section_content.v)),
                          !.parsing_stats.sections_successfully_parsed = @ + 1]
             Ended(end_page) ==
                 Extracted(end_page, ExtractSectionContent(start_page, end_page,
                                                           page_extractions, toc_entry))
         IN  SectionLoop(Ended(DetermineSectionEndPage(toc_entry, sorted_toc, i)),
                         sorted_toc, page_extractions, i + 1)

\* DocumentParser.parse_document_sections: the parser after the call; the
\* call returns its document_sections
ParseDocumentSections(parser, toc_entries, page_extractions) ==
    LET Loop(sorted_toc) ==
            SectionLoop([parser EXCEPT
                            !.document_sections = <<>>,
                            !.parsing_stats.total_sections_attempted = Len(sorted_toc)],
                        sorted_toc, page_extractions, 1)
    IN  Loop(SortedBuiltin(toc_entries).result)

-----------------------------------------------------------------------------
(* ValidationReport.  A float that is a quotient is a fraction [num, den],  *)
(* compared exactly.  A list built by iterating a Python set                *)
(* (section_comparison, page_mismatches) has an unspecified order and is    *)
(* represented by the set of its rows.                                      *)

Fraction(num, den) == [num |-> num, den |-> den]

\* the fraction is >= num / den
AtLeast(fraction, num, den) == fraction.num * den >= num * fraction.den

\* {}
EmptyDict == <<>>

\* the keys of {item.section_id: item for item in items}, in insertion order
RECURSIVE DictKeys(_)
DictKeys(items) ==
    IF items = <<>> THEN <<>>
    ELSE LET init == DictKeys(SubSeq(items, 1, Len(items) - 1))
             id == items[Len(items)].section_id
         IN  IF \E i \in 1..Len(init) : init[i] = id THEN init ELSE Append(init, id)

\* the value of {item.section_id: item for item in items} at a key: the last
\* item with that id
DictGet(items, id) ==
    items[CHOOSE i \in 1..Len(items) :
              /\ items[i].section_id = id
              /\ \A j \in (i + 1)..Len(items) : items[j].section_id # id]

IdSet(items) == {items[i].section_id : i \in 1..Len(items)}

\* ValidationReport.__init__: self.validation_results
NewValidationResults ==
    [summary |-> EmptyDict,
     section_comparison |-> {},
     missing_sections |-> <<>>,
     extra_sections |-> <<>>,
     page_mismatches |-> {},
     quality_issues |-> <<>>,
     statistics |-> EmptyDict]

\* every id of the ToC listed as missing, whether a section has it or not
MissingSectionsUnfiltered(toc_entries, document_sections) ==
    LET keys == DictKeys(toc_entries)
    IN  [i \in 1..Len(keys) |->
            LET toc_entry == DictGet(toc_entries, keys[i])
            IN  [section_id |-> keys[i],
                 title |-> toc_entry.title,
                 page |-> toc_entry.page,
                 level |-> toc_entry.level,
                 issue |-> "Missing from document sections"]]

\* ValidationReport._validate_section_coverage: missing_sections
MissingSections(toc_entries, document_sections) ==
    LET keys == SelectSeq(DictKeys(toc_entries), LAMBDA id : id \notin IdSet(document_sections))
    IN  [i \in 1..Len(keys) |->
            LET toc_entry == DictGet(toc_entries, keys[i])
            IN  [section_id |-> keys[i],
                 title |-> toc_entry.title,
                 page |-> toc_entry.page,
                 level |-> toc_entry.level,
                 issue |-> "Missing from document sections"]]

\* ValidationReport._validate_section_coverage: extra_sections
ExtraSections(toc_entries, document_sections) ==
    LET keys == SelectSeq(DictKeys(document_sections), LAMBDA id : id \notin IdSet(toc_entries))
    IN  [i \in 1..Len(keys) |->
            LET doc_section == DictGet(document_sections, keys[i])
            IN  [section_id |-> keys[i],
                 title |-> doc_section.title,
                 page_start |-> doc_section.page_start,
                 level |-> doc_section.level,
                 issue |-> "Not found in ToC"]]

\* ValidationReport._validate_page_consistency: page_mismatches
PageMismatches(toc_entries, document_sections) ==
    {[section_id |-> id,
      title |-> DictGet(toc_entries, id).title,
      toc_page |-> DictGet(toc_entries, id).page,
      document_page |-> DictGet(document_sections, id).page_start,
      difference |-> Abs(DictGet(toc_entries, id).page - DictGet(document_sections, id).page_start),
      issue |-> "Page number mismatch"] :
        id \in {k \in IdSet(toc_entries) \cap IdSet(document_sections) :
                   DictGet(toc_entries, k).page # DictGet(document_sections, k).page_start}}

\* ValidationReport._validate_hierarchical_structure: the issues of one pair
StructureIssues(toc_entry, doc_section) ==
    (IF toc_entry.level # doc_section.level THEN <<"Level mismatch">> ELSE <<>>)
    \o (IF toc_entry.parent_id # doc_section.parent_id THEN <<"Parent mismatch">> ELSE <<>>)
    \o (IF toc_entry.title.text # doc_section.title.text THEN <<"Title mismatch">> ELSE <<>>)

\* ValidationReport._validate_hierarchical_structure: section_comparison
SectionComparison(toc_entries, document_sections) ==
    {LET toc_entry == DictGet(toc_entries, id)
         doc_section == DictGet(document_sections, id)
         issues == StructureIssues(toc_entry, doc_section)
     IN  [section_id |-> id,
          toc_title |-> toc_entry.title,
          doc_title |-> doc_section.title,
          toc_page |-> toc_entry.page,
          doc_page_start |-> doc_section.page_start,
          doc_page_end |-> doc_section.page_end,
          toc_level |-> toc_entry.level,
          doc_level |-> doc_section.level,
          toc_parent |-> toc_entry.parent_id,
          doc_parent |-> doc_section.parent_id,
          toc_confidence |-> toc_entry.confidence_score,
          doc_confidence |-> doc_section.confidence_score,
          word_count |-> doc_section.word_count,
          content_type |-> doc_section.content_type,
          has_tables |-> doc_section.has_tables,
          has_figures |-> doc_section.has_figures,
          issues |-> issues,
          status |-> IF issues # <<>> THEN "Issues found" ELSE "OK"] :
        id \in IdSet(toc_entries) \cap IdSet(document_sections)}

\* ValidationReport._validate_content_quality: the issues of one section
QualityIssuesOf(section) ==
    (IF section.confidence_score < 5000 THEN <<"Low confidence score">> ELSE <<>>)
    \o (IF section.word_count < 10 THEN <<"Very short content">> ELSE <<>>)
    \o (IF ContentLines(section.content) = <<>> THEN <<"Empty content">> ELSE <<>>)
    \o (IF section.extraction_notes # <<>> THEN <<"Extraction warnings">> ELSE <<>>)
    \o (IF /\ section.page_end # None
           /\ Get(section.page_end) # 0
           /\ Get(section.page_end) < section.page_start
        THEN <<"Invalid page range">> ELSE <<>>)

\* the severity decided by the confidence alone
SeverityByConfidence(section) ==
    IF section.confidence_score < 3000 THEN "High" ELSE "Medium"

\* ValidationReport._validate_content_quality: the severity of a record
Severity(section) ==
    IF section.confidence_score < 3000 \/ section.word_count < 5 THEN "High" ELSE "Medium"

\* ValidationReport._validate_content_quality: quality_issues
QualityIssues(document_sections) ==
    LET flagged == SelectSeq(document_sections, LAMBDA section : QualityIssuesOf(section) # <<>>)
    IN  [i \in 1..Len(flagged) |->
            [section_id |-> flagged[i].section_id,
             title |-> flagged[i].title,
             page_start |-> flagged[i].page_start,
             confidence_score |-> flagged[i].confidence_score,
             word_count |-> flagged[i].word_count,
             content_length |-> ContentLen(flagged[i].content),
             issues |-> QualityIssuesOf(flagged[i]),
             severity |-> Severity(flagged[i])]]

\* a defaultdict(int) counting the values of a field
Distribution(items, field) ==
    [v \in {items[i][field] : i \in 1..Len(items)} |->
        Cardinality({i \in 1..Len(items) : items[i][field] = v})]

\* the entries whose id is the id of a section, each repeated id counted
MatchedCountWithRepeats(toc_entries, document_sections) ==
    Cardinality({i \in 1..Len(toc_entries) :
                    toc_entries[i].section_id \in IdSet(document_sections)})

\* ValidationReport._calculate_validation_statistics: matched_count
MatchedCount(toc_entries, document_sections) ==
    Cardinality(IdSet(toc_entries) \cap IdSet(document_sections))

\* ValidationReport._calculate_validation_statistics
ValidationStatistics(results, toc_entries, document_sections) ==
    LET toc_count == Len(toc_entries)
        doc_count == Len(document_sections)
        matched_count == MatchedCount(toc_entries, document_sections)
        total(field(_)) == SumSeq([i \in 1..doc_count |-> field(document_sections[i])])
        T == Max(1, toc_count)
        D == Max(1, doc_count)
    IN  [toc_sections_count |-> toc_count,
         document_sections_count |-> doc_count,
         matched_sections_count |-> matched_count,
         missing_sections_count |-> Len(results.missing_sections),
         extra_sections_count |-> Len(results.extra_sections),
         page_mismatches_count |-> Cardinality(results.page_mismatches),
         quality_issues_count |-> Len(results.quality_issues),
         toc_match_rate |-> Fraction(matched_count, T),
         document_match_rate |-> Fraction(matched_count, D),
         overall_match_rate |-> Fraction(matched_count * D + matched_count * T, 2 * T * D),
         toc_level_distribution |-> Distribution(toc_entries, "level"),
         document_level_distribution |-> Distribution(document_sections, "level"),
         content_type_distribution |-> Distribution(document_sections, "content_type"),
         average_confidence_score |->
             IF doc_count > 0 THEN Fraction(total(LAMBDA x : x.confidence_score), doc_count)
             ELSE Fraction(0, 1),
         average_word_count |->
             IF doc_count > 0 THEN Fraction(total(LAMBDA x : x.word_count), doc_count)
             ELSE Fraction(0, 1),
         total_word_count |-> total(LAMBDA x : x.word_count),
         total_tables |-> total(LAMBDA x : x.table_count),
         total_figures |-> total(LAMBDA x : x.figure_count)]

\* the status with Fair starting at a match rate of 0.75
SummaryStatusFairFrom75(stats) ==
    IF AtLeast(stats.overall_match_rate, 95, 100) /\ stats.quality_issues_count = 0
    THEN "Excellent"
    ELSE IF AtLeast(stats.overall_match_rate, 85, 100) /\ stats.quality_issues_count <= 2
    THEN "Good"
    ELSE IF AtLeast(stats.overall_match_rate, 75, 100)
    THEN "Fair"
    ELSE "Poor"

\* ValidationReport._generate_validation_summary: status
SummaryStatus(stats) ==
    IF AtLeast(stats.overall_match_rate, 95, 100) /\ stats.quality_issues_count = 0
    THEN "Excellent"
    ELSE IF AtLeast(stats.overall_match_rate, 85, 100) /\ stats.quality_issues_count <= 2
    THEN "Good"
    ELSE IF AtLeast(stats.overall_match_rate, 70, 100)
    THEN "Fair"
    ELSE "Poor"

\* ValidationReport._generate_validation_summary: color
SummaryColor(status) ==
    CASE status = "Excellent" -> "green"
      [] status = "Good" -> "yellow"
      [] status = "Fair" -> "orange"
      [] OTHER -> "red"

\* ValidationReport._generate_validation_summary
ValidationSummary(stats) ==
    LET status == SummaryStatus(stats)
    IN  [status |-> status,
         color |-> SummaryColor(status),
         text |-> <<status, stats.overall_match_rate, stats.toc_sections_count,
                    stats.document_sections_count, stats.matched_sections_count,
                    stats.missing_sections_count, stats.extra_sections_count,
                    stats.page_mismatches_count, stats.quality_issues_count,
                    stats.average_confidence_score, stats.total_word_count>>,
         overall_match_rate |-> stats.overall_match_rate,
         validation_timestamp |-> "validation_timestamp"]

\* the lists of a call added to those self.validation_results holds
ValidateParsingResultsAccumulating(results, toc_entries, document_sections) ==
    LET checked ==
            [results EXCEPT
                !.missing_sections = @ \o MissingSections(toc_entries, document_sections),
                !.extra_sections = @ \o ExtraSections(toc_entries, document_sections),
                !.page_mismatches = @ \cup PageMismatches(toc_entries, document_sections),
                !.section_comparison = @ \cup SectionComparison(toc_entries, document_sections),
                !.quality_issues = @ \o QualityIssues(document_sections)]
        counted == [checked EXCEPT
                       !.statistics = ValidationStatistics(checked, toc_entries, document_sections)]
    IN  [counted EXCEPT !.summary = ValidationSummary(counted.statistics)]

\* ValidationReport.validate_parsing_results: self.validation_results after
\* the call, which the call returns
ValidateParsingResults(results, toc_entries, document_sections) ==
    LET covered == [results EXCEPT
                       !.missing_sections = MissingSections(toc_entries, document_sections),
                       !.extra_sections = ExtraSections(toc_entries, document_sections)]
        paged == [covered EXCEPT
                     !.page_mismatches = PageMismatches(toc_entries, document_sections)]
        compared == [paged EXCEPT
                        !.section_comparison = SectionComparison(toc_entries, document_sections)]
        checked == [compared EXCEPT !.quality_issues = QualityIssues(document_sections)]
        counted == [checked EXCEPT
                       !.statistics = ValidationStatistics(checked, toc_entries, document_sections)]
    IN  [counted EXCEPT !.summary = ValidationSummary(counted.statistics)]

-----------------------------------------------------------------------------
(* PDFExtractor and USBPDSpecificationParser.  The PDF file is what the     *)
(* extraction finds of it: whether the file exists, the text of its pages   *)
(* (none when the file cannot be opened), and whether the output directory  *)
(* can be written.                                                          *)

\* PageExtraction
Page(page_number, text) == [page_number |-> page_number, text |-> text]

\* str.split('\n') of a text: the empty text has one empty line
SplitLines(text) == IF text = <<>> THEN <<"">> ELSE text

\* "\n\n".join(texts), as lines
RECURSIVE JoinTexts(_)
JoinTexts(texts) ==
    IF texts = <<>> THEN <<>>
    ELSE IF Len(texts) = 1 THEN texts[1]
    ELSE SplitLines(JoinTexts(SubSeq(texts, 1, Len(texts) - 1))) \o <<"">> \o SplitLines(texts[Len(texts)])

\* PDFExtractor.extract_all_pages: self.pages
ExtractAllPages(file) == [i \in 1..Len(file.pages) |-> Page(i, file.pages[i])]

\* PDFExtractor.find_table_of_contents_pages: the score of a page
TocPageScore(text) ==
    LET Score(lines) ==
            LET indicators == UNION {lines[i].toc_ind : i \in 1..Len(lines)}
                page_refs == Cardinality({i \in 1..Len(lines) : lines[i].page_ref})
                short_lines == Cardinality({i \in 1..Len(lines) : lines[i].short})
            IN  Cardinality(indicators)
                + (IF page_refs > 3 THEN 2 ELSE 0)
                + (IF 2 * short_lines > Len(lines) THEN 1 ELSE 0)
    IN  Score(Lines(SplitLines(text)))

\* PDFExtractor.find_table_of_contents_pages
FindTableOfContentsPages(pages) ==
    LET Numbers(likely) == [i \in 1..Len(likely) |-> likely[i].page_number]
    IN  Numbers(SelectSeq(pages, LAMBDA page : TocPageScore(page.text) >= 2))

\* PDFExtractor.get_page_range_text
GetPageRangeText(pages, start_page, end_page) ==
    JoinTexts([i \in 1..(Min(end_page, Len(pages)) - start_page + 1) |->
                  pages[start_page + i - 1].text])

\* TOCParser.get_parsing_statistics
TocParsingStatistics(parser) ==
    IF parser.toc_entries = <<>> THEN [error |-> "No ToC entries parsed"]
    ELSE LET entries == parser.toc_entries
             levels == {entries[i].level : i \in 1..Len(entries)}
             page_set == {entries[i].page : i \in 1..Len(entries)}
         IN  [total_entries |-> Len(entries),
              level_distribution |-> Distribution(entries, "level"),
              max_level |-> SetMax(levels),
              average_confidence |->
                  Fraction(SumSeq([i \in 1..Len(entries) |-> entries[i].confidence_score]),
                           Len(entries)),
              pattern_match_counts |-> parser.parsing_stats.pattern_matches,
              lines_processed |-> parser.parsing_stats.total_lines_processed,
              success_rate |-> Fraction(Len(entries),
                                        Max(1, parser.parsing_stats.total_lines_processed)),
              page_range |-> <<CHOOSE x \in page_set : \A y \in page_set : x <= y,
                               SetMax(page_set)>>]

\* DocumentParser.get_parsing_statistics
DocParsingStatistics(parser) ==
    IF parser.document_sections = <<>> THEN [error |-> "No document sections parsed"]
    ELSE LET sections == parser.document_sections
             total(field(_)) == SumSeq([i \in 1..Len(sections) |-> field(sections[i])])
             covered(section) ==
                 {section.page_start}
                 \cup (IF section.page_end # None /\ Get(section.page_end) # 0
                       THEN section.page_start..Get(section.page_end) ELSE {})
         IN  [total_sections_parsed |-> Len(sections),
              total_sections_attempted |-> parser.parsing_stats.total_sections_attempted,
              success_rate |-> Fraction(Len(sections),
                                        Max(1, parser.parsing_stats.total_sections_attempted)),
              average_confidence |-> Fraction(total(LAMBDA x : x.confidence_score), Len(sections)),
              total_word_count |-> total(LAMBDA x : x.word_count),
              total_tables |-> total(LAMBDA x : x.table_count),
              total_figures |-> total(LAMBDA x : x.figure_count),
              content_type_distribution |-> Distribution(sections, "content_type"),
              level_distribution |-> Distribution(sections, "level"),
              pages_with_content |->
                  Cardinality(UNION {covered(sections[i]) : i \in 1..Len(sections)}),
              extraction_errors |-> parser.parsing_stats.content_extraction_errors,
              boundary_warnings |-> parser.parsing_stats.boundary_detection_warnings,
              sections_with_notes |->
                  Cardinality({i \in 1..Len(sections) : sections[i].extraction_notes # <<>>})]

\* dict.get(key, default) of a dict represented by a record
DictGetOr(dict, key, default) == IF key \in DOMAIN dict THEN dict[key] ELSE default

\* USBPDSpecificationParser.__init__: self.parsing_results
NewParsingResults ==
    [document_info |-> None,
     page_extractions |-> <<>>,
     toc_entries |-> <<>>,
     document_sections |-> <<>>,
     toc_stats |-> EmptyDict,
     document_stats |-> EmptyDict,
     validation_results |-> EmptyDict,
     generation_stats |-> EmptyDict]

\* parse_pdf's "except Exception as e": the result for a failed stage
Failure(error) == [success |-> FALSE, error |-> error]

\* json.dumps of None, and of any other value of a key that may hold None
JsonNull == [json |-> "null"]
JsonValue(value) == [json |-> "value", value |-> value]

\* the keys of a record whose value is Optional in the dataclasses
OptionalKeys == {"parent_id", "page_end"}

\* json.dumps(entry_dict, ensure_ascii=False): the line of the file, a JSON
\* object with the keys of the dict
JsonDumps(entry_dict) ==
    [key \in DOMAIN entry_dict |->
        IF key \in OptionalKeys
        THEN IF entry_dict[key] = None THEN JsonNull ELSE JsonValue(Get(entry_dict[key]))
        ELSE entry_dict[key]]

\* json.loads of a line: null is read as None
JsonLoads(line) ==
    [key \in DOMAIN line |->
        IF key \in OptionalKeys
        THEN IF line[key] = JsonNull THEN None ELSE Some(line[key].value)
        ELSE line[key]]

\* JSONLGenerator._toc_entry_to_dict
TocEntryToDict(doc_title, entry) ==
    [doc_title |-> doc_title,
     section_id |-> entry.section_id,
     title |-> entry.title,
     page |-> entry.page,
     level |-> entry.level,
     parent_id |-> entry.parent_id,
     full_path |-> entry.full_path,
     tags |-> entry.tags]

\* JSONLGenerator._document_section_to_dict
DocumentSectionToDict(doc_title, section) ==
    [doc_title |-> doc_title,
     section_id |-> section.section_id,
     title |-> section.title,
     page_start |-> section.page_start,
     page_end |-> section.page_end,
     level |-> section.level,
     parent_id |-> section.parent_id,
     full_path |-> section.full_path,
     content |-> section.content,
     content_type |-> section.content_type,
     has_tables |-> section.has_tables,
     has_figures |-> section.has_figures,
     table_count |-> section.table_count,
     figure_count |-> section.figure_count,
     word_count |-> section.word_count,
     tags |-> section.tags,
     confidence_score |-> section.confidence_score,
     extraction_notes |-> section.extraction_notes]

\* JSONLGenerator.generate_toc_jsonl: the lines it writes, one per entry
TocJsonlLines(doc_title, toc_entries) ==
    [i \in 1..Len(toc_entries) |-> JsonDumps(TocEntryToDict(doc_title, toc_entries[i]))]

\* JSONLGenerator.generate_document_jsonl: the lines it writes, one per section
DocumentJsonlLines(doc_title, document_sections) ==
    [i \in 1..Len(document_sections) |->
        JsonDumps(DocumentSectionToDict(doc_title, document_sections[i]))]

\* USBPDSpecificationParser._generate_jsonl_files: the title of the document
DocTitle(document_info) == Get(document_info).title

\* JSONLGenerator.generate_toc_jsonl: the statistics it returns when the
\* file can be written (no schema is loaded, so that no record is validated)
GenerateTocJsonl(toc_entries) ==
    [total_entries |-> Len(toc_entries),
     successfully_written |-> Len(toc_entries),
     validation_errors |-> 0,
     validation_warnings |-> <<>>]

\* JSONLGenerator.generate_document_jsonl
GenerateDocumentJsonl(document_sections) ==
    LET Stats(total_chars) ==
            [total_sections |-> Len(document_sections),
             successfully_written |-> Len(document_sections),
             validation_errors |-> 0,
             validation_warnings |-> <<>>,
             content_size_stats |->
                 [total_chars |-> total_chars,
                  total_words |-> SumSeq([i \in 1..Len(document_sections) |->
                                             document_sections[i].word_count]),
                  avg_section_size |-> IF Len(document_sections) > 0
                                       THEN Fraction(total_chars, Len(document_sections))
                                       ELSE Fraction(0, 1)]]
    IN  Stats(SumSeq([i \in 1..Len(document_sections) |->
                         ContentLen(document_sections[i].content)]))

\* JSONLGenerator.generate_metadata_jsonl
GenerateMetadataJsonl ==
    [metadata_entries |-> 1,
     successfully_written |-> 1,
     validation_errors |-> 0,
     validation_warnings |-> <<>>]

\* the validation results with the key report_stats added
WithReportStats(results, report_stats) ==
    [key \in DOMAIN results \cup {"report_stats"} |->
        IF key = "report_stats" THEN report_stats ELSE results[key]]

\* ValidationReport.generate_excel_report: the statistics it returns
ReportStats(results, generated) ==
    IF generated
    THEN [report_generated |-> TRUE,
          total_rows |-> Cardinality(results.section_comparison) + Len(results.missing_sections)
                         + Len(results.extra_sections) + Cardinality(results.page_mismatches)
                         + Len(results.quality_issues)]
    ELSE [report_generated |-> FALSE, error |-> "Exception"]

RECURSIVE Gcd(_, _)
Gcd(m, n) == IF n = 0 THEN m ELSE Gcd(n, m % n)

\* (a + b) / 2 for two fractions, in lowest terms
Mean(a, b) ==
    LET num == a.num * b.den + b.num * a.den
        den == 2 * a.den * b.den
        g == Gcd(num, den)
    IN  Fraction(num \div g, den \div g)

\* USBPDSpecificationParser._generate_parsing_summary
ParsingSummary(results) ==
    LET summary == DictGetOr(results.validation_results, "summary", EmptyDict)
        statistics == DictGetOr(results.validation_results, "statistics", EmptyDict)
        status == DictGetOr(summary, "status", "Unknown")
        toc_success == Len(results.toc_entries) > 0
        doc_success == Len(results.document_sections) > 0
        jsonl_success ==
            \A key \in DOMAIN results.generation_stats :
                DictGetOr(results.generation_stats[key], "successfully_written", 0) > 0
        validation_success == status # "Poor"
        match_rate == DictGetOr(summary, "overall_match_rate", Fraction(0, 1))
        confidence == DictGetOr(results.document_stats, "average_confidence", Fraction(0, 1))
    IN  [success |-> toc_success /\ doc_success /\ jsonl_success /\ validation_success,
         accuracy |-> Mean(match_rate, Fraction(confidence.num, confidence.den * 10000)),
         document_info |-> Get(results.document_info),
         parsing_results |->
             [toc_entries_found |-> Len(results.toc_entries),
              document_sections_parsed |-> Len(results.document_sections),
              total_word_count |-> DictGetOr(results.document_stats, "total_word_count", 0),
              total_tables |-> DictGetOr(results.document_stats, "total_tables", 0),
              total_figures |-> DictGetOr(results.document_stats, "total_figures", 0)],
         quality_metrics |->
             [overall_match_rate |-> match_rate,
              average_confidence |-> confidence,
              validation_status |-> status,
              missing_sections |-> DictGetOr(statistics, "missing_sections_count", 0),
              quality_issues |-> DictGetOr(statistics, "quality_issues_count", 0)]]

\* main, the command "parse": what it prints of the result of parse_pdf,
\* and its exit code
Main(result) ==
    IF DictGetOr(result, "success", FALSE)
    THEN [printed |-> "Parsing completed successfully", exit_code |-> 0]
    ELSE [printed |-> "Parsing failed", exit_code |-> 1]

-----------------------------------------------------------------------------
(* Bounds and inputs *)

MaxTocLines == 3

SeqsUpTo(S, n) == UNION {[1..k -> S] : k \in 0..n}

\* the lines a ToC text is made of
TocLines ==
    {"2 Overview .... 15", "2.1 Basics .... 15", "2.2 Scope .... 22",
     "1 Introduction .... 15", "1.0 General .... 15", "1000 Legacy Notes .... 15",
     "Appendix A: Message Format .... 15", "Chapter 1: Basics .... 15",
     "Table 6-1: Header Format .... 15", "table 6-2: Header Format .... 15",
     "References .... 15", "Figure 2-1: X .... 6000", "3 Overview .... 6000",
     "2.1.1 Power Delivery Contract Negotiation .... 1000", "4 Ab .... 3000",
     "Some stray text", "Contents"}

TocTexts == SeqsUpTo(TocLines, MaxTocLines)

MaxDocEntries == 3

\* the entry parse_toc_text makes of one ToC line
EntryOf(line) == ParseTocText(NewTocParser, <<line>>).entries[1]

\* the ToC lines the entries given to the document parser come from
DocTocLines ==
    {"1 Introduction .... 2", "1.1 Scope .... 2", "2 Message Format .... 3",
     "3 Power Rules .... 3", "4 Source Rules .... 25", "4.1 Fixed Supply .... 27",
     "5 Cable Plug .... 30"}

\* entries as parse_toc_text returns them, and entries a caller built with
\* a confidence of its own
DocEntries ==
    LET Built(entry, confidence) ==
            IF confidence = None THEN entry
            ELSE [entry EXCEPT !.confidence_score = Get(confidence)]
    IN  {Built(EntryOf(x[1]), x[2]) :
            x \in (DocTocLines \X {None})
                  \cup {<<"1.1 Scope .... 2", Some(0)>>,
                        <<"2 Message Format .... 3", Some(5000)>>}}

DocEntryLists == SeqsUpTo(DocEntries, MaxDocEntries)


FrontPages ==
    << Page(2, <<"1 Introduction", "<60 words>", "1.1 Scope", "short note here">>),
       Page(3, <<"2 Message Format", "<60 words>", "Table 1: Header layout",
                 "3 Power Rules", "Byte 0: 0x1F Bit 3: 0x02">>) >>

BackPages ==
    << Page(25, <<"4 Source Rules", "<60 words>">>),
       Page(27, <<"State Idle go to state Ready">>),
       Page(29, <<"short note here">>),
       Page(30, <<"5 Cable Plug", "<4 non-ASCII characters>">>) >>

\* the page corpora: none, unreadable text, the front pages, the whole document
Corpora ==
    {<<>>, <<Page(2, <<"<4 non-ASCII characters>">>)>>, FrontPages, FrontPages \o BackPages}

MaxValItems == 2

\* entries with a repeated id, another page and another title among them
ValEntries ==
    {EntryOf(l) : l \in {"1 Introduction .... 2", "1.1 Scope .... 2",
                         "2 Message Format .... 3", "1 Introduction .... 15",
                         "2 Overview .... 15"}}

\* the sections parse_document_sections makes of the front pages
ParsedSections ==
    LET Parsed(lines) ==
            ParseDocumentSections(NewDocumentParser,
                                  [i \in 1..Len(lines) |-> EntryOf(lines[i])],
                                  FrontPages).document_sections
    IN  Parsed(<<"1 Introduction .... 2", "1.1 Scope .... 2",
                 "2 Message Format .... 3", "3 Power Rules .... 3">>)

\* a section a caller built: a parsed one with a word count and a
\* confidence of its own
BuiltSection(section, word_count, confidence_score) ==
    [section EXCEPT !.word_count = word_count,
                    !.confidence_score = confidence_score]

\* the section of a chapter that starts on page 1 as the next chapter does:
\* _determine_section_end_page gives it the page before that of the next one
FirstPageSection(section) ==
    [section EXCEPT !.page_start = 1, !.page_end = Some(1 - 1)]

\* the parsed sections, and that of "1 Introduction" as a caller built it
\* and as the first of two chapters of page 1
ValSections ==
    LET Sections(parsed) ==
            {parsed[i] : i \in 1..Len(parsed)}
            \cup {BuiltSection(parsed[1], x[1], x[2]) :
                     x \in {<<3, 9000>>, <<4, 3000>>, <<5, 3000>>, <<10, 2999>>}}
            \cup {FirstPageSection(parsed[1])}
    IN  Sections(ParsedSections)

\* short lists of entries and sections, in any combination
SmallValInputs ==
    [toc_entries : SeqsUpTo(ValEntries, MaxValItems),
     document_sections : SeqsUpTo(ValSections, MaxValItems)]

MaxCount == 25
MaxFlagged == 3

\* str(n) for 0 <= n < 100
Decimal(n) ==
    IF n < 10 THEN <<CodePoints[Ord("0") + n]>>
    ELSE <<CodePoints[Ord("0") + (n \div 10)], CodePoints[Ord("0") + (n % 10)]>>

\* the entry and the section of chapter n of a long document; a flagged
\* section has three words
NumberedEntry(entry, n) == [entry EXCEPT !.section_id = Decimal(n)]

NumberedSection(section, n, flagged) ==
    [section EXCEPT !.section_id = Decimal(n),
                    !.word_count = IF flagged THEN 3 ELSE @]

\* a ToC of toc_count chapters, sections for the first doc_count of them, the
\* first flagged_count of which are flagged
LongValInput(entry, section, toc_count, doc_count, flagged_count) ==
    [toc_entries |-> [n \in 1..toc_count |-> NumberedEntry(entry, n)],
     document_sections |->
         [n \in 1..doc_count |-> NumberedSection(section, n, n <= flagged_count)]]

\* long documents made of the entry and the section of "1 Introduction"
LongValInputs ==
    LET Inputs(entry, section) ==
            {LongValInput(entry, section, x[1], x[2], x[3]) :
                x \in {y \in (0..MaxCount) \X (0..MaxCount) \X (0..MaxFlagged) :
                          y[3] <= y[2] /\ y[2] <= y[1]}}
    IN  Inputs(EntryOf("1 Introduction .... 2"), ParsedSections[1])

ValInputs == SmallValInputs \cup LongValInputs

MaxPdfPages == 3

\* the page texts a PDF file is made of: a contents page, a contents page
\* with a four-digit section and an appendix on one page, the two front
\* pages of the body with a running footer, a page without text and a page
\* of unreadable text
PdfPageTexts ==
    { <<"1 Introduction .... 2", "1.1 Scope .... 2", "2 Message Format .... 3">>,
      <<"1000 Legacy Notes .... 15", "Appendix A: Message Format .... 15">>,
      FrontPages[1].text \o <<"USB PD Rev 3.1 draft">>,
      FrontPages[2].text \o <<"USB PD Rev 3.1 draft">>,
      <<>>,
      <<"<4 non-ASCII characters>">> }

\* a call of parse_pdf: a file that does not exist, or a file of up to
\* MaxPdfPages pages (none when it cannot be opened); the output directory
\* can be written or not
PdfInputs ==
    {[exists |-> FALSE, writable |-> w, pages |-> <<>>] : w \in BOOLEAN}
    \cup {[exists |-> TRUE, writable |-> w, pages |-> p] :
             w \in BOOLEAN, p \in SeqsUpTo(PdfPageTexts, MaxPdfPages)}

-----------------------------------------------------------------------------
(* The objects before any call *)

NotCalled == [kind |-> "none", value |-> <<>>]
Returned(v) == [kind |-> "returned", value |-> v]
Raised == [kind |-> "raised", value |-> <<>>]

TocIdle ==
    /\ toc_input = <<>>
    /\ toc_parser = NewTocParser
    /\ toc_return = NotCalled

DocIdle ==
    /\ doc_input = [toc_entries |-> <<>>, page_extractions |-> <<>>]
    /\ doc_parser = NewDocumentParser
    /\ doc_return = NotCalled
    /\ tags_shared = <<>>

ValIdle ==
    /\ val_input = [toc_entries |-> <<>>, document_sections |-> <<>>]
    /\ validation_results = NewValidationResults
    /\ val_return = NotCalled

PipeIdle ==
    /\ pdf = [exists |-> FALSE, writable |-> FALSE, pages |-> <<>>]
    /\ parsing_results = NewParsingResults
    /\ output_files = EmptyDict
    /\ pipeline_return = NotCalled

tocVars == <<toc_input, toc_parser, toc_return>>
docVars == <<doc_input, doc_parser, doc_return, tags_shared>>
valVars == <<val_input, validation_results, val_return>>
pipeVars == <<pdf, parsing_results, output_files, pipeline_return>>

-----------------------------------------------------------------------------
(* SpecToc: one call of TOCParser.parse_toc_text on a fresh parser *)

InitToc ==
    /\ toc_input \in TocTexts
    /\ toc_parser = NewTocParser
    /\ toc_return = NotCalled
    /\ pc = "parse_toc_text"
    /\ DocIdle /\ ValIdle /\ PipeIdle

CallParseTocText ==
    /\ pc = "parse_toc_text"
    /\ pc' = "done"
    /\ \E r \in {ParseTocText(toc_parser, toc_input)} :
           /\ toc_parser' = r.parser
           /\ toc_return' = IF r.raised THEN Raised ELSE Returned(r.entries)
    /\ UNCHANGED <<toc_input, docVars, valVars, pipeVars>>

NextToc == CallParseTocText

SpecToc == InitToc /\ [][NextToc]_vars

-----------------------------------------------------------------------------
(* SpecDoc: one call of DocumentParser.parse_document_sections on a fresh
   parser *)

InitDoc ==
    /\ doc_input \in [toc_entries : DocEntryLists, page_extractions : Corpora]
    /\ doc_parser = NewDocumentParser
    /\ doc_return = NotCalled
    /\ tags_shared = <<>>
    /\ pc = "parse_document_sections"
    /\ TocIdle /\ ValIdle /\ PipeIdle

CallParseDocumentSections ==
    /\ pc = "parse_document_sections"
    /\ pc' = "done"
    /\ doc_parser' = ParseDocumentSections(doc_parser, doc_input.toc_entries,
                                           doc_input.page_extractions)
    /\ doc_return' = Returned(doc_parser'.document_sections)
    /\ tags_shared' = SharedTags(doc_parser'.document_sections)
    /\ doc_input' = [doc_input EXCEPT !.toc_entries = SortedBuiltin(@).argument]
    /\ UNCHANGED <<tocVars, valVars, pipeVars>>

NextDoc == CallParseDocumentSections

SpecDoc == InitDoc /\ [][NextDoc]_vars

-----------------------------------------------------------------------------
(* SpecVal: one call of ValidationReport.validate_parsing_results on a fresh
   report *)

InitVal ==
    /\ val_input \in ValInputs
    /\ validation_results = NewValidationResults
    /\ val_return = NotCalled
    /\ pc = "validate_parsing_results"
    /\ TocIdle /\ DocIdle /\ PipeIdle

CallValidateParsingResults ==
    /\ pc = "validate_parsing_results"
    /\ pc' = "done"
    /\ validation_results' = ValidateParsingResults(validation_results, val_input.toc_entries,
                                                     val_input.document_sections)
    /\ val_return' = Returned(validation_results')
    /\ UNCHANGED <<val_input, tocVars, docVars, pipeVars>>

NextVal == CallValidateParsingResults

SpecVal == InitVal /\ [][NextVal]_vars

-----------------------------------------------------------------------------
(* SpecValRepeat: any number of calls of validate_parsing_results on one    *)
(* ValidationReport, each with arguments of its own                         *)

\* the arguments of the repeated calls: lists of entries with a repeated id
\* and an id without section, and of a section without issue and a section
\* with issues that no entry names
RepeatValInputs ==
    LET Inputs(parsed) ==
            [toc_entries : SeqsUpTo({EntryOf(l) : l \in {"1 Introduction .... 2",
                                                          "1 Introduction .... 15",
                                                          "2 Message Format .... 3"}},
                                    MaxValItems),
             document_sections : SeqsUpTo({parsed[1], parsed[4]}, MaxValItems)]
    IN  Inputs(ParsedSections)

InitValRepeat ==
    /\ val_input \in RepeatValInputs
    /\ validation_results = NewValidationResults
    /\ val_return = NotCalled
    /\ pc = "validate_parsing_results"
    /\ TocIdle /\ DocIdle /\ PipeIdle

\* a further call on the same object, with other arguments
CallValidateParsingResultsAgain ==
    /\ pc \in {"done", "called again"}
    /\ pc' = "called again"
    /\ \E input \in RepeatValInputs :
           /\ val_input' = input
           /\ validation_results' = ValidateParsingResults(validation_results, input.toc_entries,
                                                            input.document_sections)
    /\ val_return' = Returned(validation_results')
    /\ UNCHANGED <<tocVars, docVars, pipeVars>>

NextValRepeat == CallValidateParsingResults \/ CallValidateParsingResultsAgain

SpecValRepeat == InitValRepeat /\ [][NextValRepeat]_vars

-----------------------------------------------------------------------------
(* SpecFrame: a call of parse_document_sections or of                       *)
(* validate_parsing_results, and a caller who then changes the tags of a    *)
(* returned section                                                         *)

InitFrame == InitDoc \/ InitVal

\* section.tags.append("changed") on a section the call returned: the list
\* object changes, and with it the tags of every object that holds it
ChangeSectionTags ==
    /\ pc = "done"
    /\ doc_return.kind = "returned"
    /\ pc' = "changed"
    /\ \E k \in 1..Len(doc_parser.document_sections) :
           LET section == doc_parser.document_sections[k]
               OfEntry(e) == /\ tags_shared[k]
                             /\ e.section_id = section.section_id
                             /\ e.page = section.page_start
                             /\ e.tags = section.tags
               SameList(j) ==
                   \/ j = k
                   \/ /\ tags_shared[k] /\ tags_shared[j]
                      /\ OfEntry([section_id |-> doc_parser.document_sections[j].section_id,
                                  page |-> doc_parser.document_sections[j].page_start,
                                  tags |-> doc_parser.document_sections[j].tags])
               Changed(sections) ==
                   [j \in 1..Len(sections) |->
                       IF SameList(j)
                       THEN [sections[j] EXCEPT !.tags = @ \cup {"changed"}]
                       ELSE sections[j]]
           IN  /\ doc_parser' = [doc_parser EXCEPT !.document_sections = Changed(@)]
               /\ doc_return' = Returned(doc_parser'.document_sections)
               /\ doc_input' =
                      [doc_input EXCEPT
                          !.toc_entries =
                              [i \in 1..Len(@) |->
                                  IF OfEntry(@[i])
                                  THEN [@[i] EXCEPT !.tags = @ \cup {"changed"}]
                                  ELSE @[i]]]
    /\ UNCHANGED <<tags_shared, tocVars, valVars, pipeVars>>

NextFrame ==
    \/ CallParseDocumentSections
    \/ CallValidateParsingResults
    \/ ChangeSectionTags

SpecFrame == InitFrame /\ [][NextFrame]_vars

-----------------------------------------------------------------------------
(* SpecDocVal: a call of parse_document_sections on a fresh parser, then    *)
(* the validation of the same list of entries against the sections it       *)
(* returned, on a fresh report                                              *)

\* validate_parsing_results(toc_entries, document_sections) after
\* document_sections = parse_document_sections(toc_entries, page_extractions)
CallValidateReturnedSections ==
    /\ pc = "done"
    /\ doc_return.kind = "returned"
    /\ pc' = "validated"
    /\ val_input' = [toc_entries |-> doc_input.toc_entries,
                     document_sections |-> doc_return.value]
    /\ validation_results' = ValidateParsingResults(validation_results, doc_input.toc_entries,
                                                     doc_return.value)
    /\ val_return' = Returned(validation_results')
    /\ UNCHANGED <<tocVars, docVars, pipeVars>>

\* lists of two entries of one id on different pages, in any order
RepeatedIdEntryLists ==
    SeqsUpTo({EntryOf(l) : l \in {"1 Introduction .... 2", "1 Introduction .... 15"}},
             MaxDocEntries)

\* the entry lists of SpecDoc, the lists with a repeated id, and a ToC whose
\* subsection starts on the page where the next chapter starts
InitDocVal ==
    /\ doc_input \in [toc_entries :
                          DocEntryLists \cup RepeatedIdEntryLists
                          \cup { [i \in 1..3 |->
                                     EntryOf(<<"1 Introduction .... 2", "1.0 General .... 15",
                                               "2 Overview .... 15">>[i])] },
                       page_extractions : Corpora]
    /\ doc_parser = NewDocumentParser
    /\ doc_return = NotCalled
    /\ tags_shared = <<>>
    /\ pc = "parse_document_sections"
    /\ TocIdle /\ ValIdle /\ PipeIdle

NextDocVal == CallParseDocumentSections \/ CallValidateReturnedSections

SpecDocVal == InitDocVal /\ [][NextDocVal]_vars

-----------------------------------------------------------------------------
(* SpecDocRepeat: any number of calls of parse_document_sections on one     *)
(* DocumentParser, each with arguments of its own.  The counters of         *)
(* parsing_stats have no upper limit in the code; the calls stop once they  *)
(* have counted more than MaxCounted sections.                              *)

MaxCounted == 5

\* the arguments of the repeated calls: up to two entries, with the front
\* pages or with a page whose text cannot be read
RepeatDocInputs ==
    [toc_entries : SeqsUpTo({EntryOf(l) : l \in {"1 Introduction .... 2",
                                                 "2 Message Format .... 3"}}, 2),
     page_extractions : {FrontPages, <<Page(2, <<"<4 non-ASCII characters>">>)>>}]

\* a further call on the same object, with other arguments
CallParseDocumentSectionsAgain ==
    /\ pc \in {"done", "called again"}
    /\ doc_parser.parsing_stats.sections_successfully_parsed
         + doc_parser.parsing_stats.content_extraction_errors <= MaxCounted
    /\ pc' = "called again"
    /\ \E input \in RepeatDocInputs :
           /\ doc_input' = input
           /\ doc_parser' = ParseDocumentSections(doc_parser, input.toc_entries,
                                                  input.page_extractions)
    /\ doc_return' = Returned(doc_parser'.document_sections)
    /\ tags_shared' = SharedTags(doc_parser'.document_sections)
    /\ UNCHANGED <<tocVars, valVars, pipeVars>>

NextDocRepeat == CallParseDocumentSections \/ CallParseDocumentSectionsAgain

SpecDocRepeat == InitDoc /\ [][NextDocRepeat]_vars

-----------------------------------------------------------------------------
(* SpecType: one call of DocumentParser._determine_content_type on counts   *)
(* of its own, or one call of parse_document_sections                       *)

MaxIndicators == 6
MaxWords == 300

\* the arguments: the two flags, the two indicator counts up to beyond the
\* cap of their scores, and the word counts on both sides of each multiple
\* of fifty
InitType ==
    \/ /\ doc_input \in [has_tables : BOOLEAN, has_figures : BOOLEAN,
                          code_indicators : 0..MaxIndicators,
                          state_machine_indicators : 0..MaxIndicators,
                          word_count : {w \in 0..MaxWords : w % 50 \in {0, 49}}]
       /\ doc_parser = NewDocumentParser
       /\ doc_return = NotCalled
       /\ tags_shared = <<>>
       /\ pc = "_determine_content_type"
       /\ TocIdle /\ ValIdle /\ PipeIdle
    \/ InitDoc

CallDetermineContentType ==
    /\ pc = "_determine_content_type"
    /\ pc' = "determined"
    /\ doc_return' = Returned(DetermineContentType(doc_input.has_tables, doc_input.has_figures,
                                                  doc_input.code_indicators,
                                                  doc_input.state_machine_indicators,
                                                  doc_input.word_count))
    /\ UNCHANGED <<doc_input, doc_parser, tags_shared, tocVars, valVars, pipeVars>>

NextType == CallDetermineContentType \/ CallParseDocumentSections

SpecType == InitType /\ [][NextType]_vars

-----------------------------------------------------------------------------
(* SpecParsers: one call of either parser on a fresh parser *)

InitParsers == InitToc \/ InitDoc

NextParsers == CallParseTocText \/ CallParseDocumentSections

SpecParsers == InitParsers /\ [][NextParsers]_vars

-----------------------------------------------------------------------------
(* Spec: one call of USBPDSpecificationParser.parse_pdf on a fresh parser,   *)
(* one step per stage; pc is the stage that runs next.  An exception of a    *)
(* stage ends the call with the failure result.                             *)

Init ==
    /\ pdf \in PdfInputs
    /\ parsing_results = NewParsingResults
    /\ output_files = EmptyDict
    /\ pipeline_return = NotCalled
    /\ pc = "_extract_pdf_content"
    /\ toc_input = <<>>
    /\ toc_parser = NewTocParser
    /\ toc_return = NotCalled
    /\ DocIdle
    /\ ValIdle

\* USBPDSpecificationParser._parse_table_of_contents: the text of the pages
\* find_table_of_contents_pages names, or of the first ten when it names none
TocText(pages) ==
    LET Text(toc_pages) == GetPageRangeText(pages, toc_pages[1], toc_pages[Len(toc_pages)])
        Found(found) ==
            Text(IF found = <<>>
                 THEN [i \in 1..(Min(11, Len(pages) + 1) - 1) |-> i]
                 ELSE found)
    IN  Found(FindTableOfContentsPages(pages))

\* an exception of a stage that parse_pdf lets through to its caller
FailRaising(error) ==
    /\ pipeline_return' = Raised
    /\ pc' = "done"

\* the except clause of parse_pdf
Fail(error) ==
    /\ pipeline_return' = Returned(Failure(error))
    /\ pc' = "done"

StepExtractPdfContent ==
    /\ pc = "_extract_pdf_content"
    /\ IF ~pdf.exists
       THEN /\ Fail("FileNotFoundError")
            /\ UNCHANGED parsing_results
       ELSE /\ parsing_results' =
                   [parsing_results EXCEPT
                       !.document_info = Some([title |-> "title",
                                               total_pages |-> Len(pdf.pages)]),
                       !.page_extractions = ExtractAllPages(pdf)]
            /\ IF pdf.pages = <<>>
               THEN Fail("KeyError")
               ELSE /\ pc' = "_parse_table_of_contents"
                    /\ UNCHANGED pipeline_return
    /\ UNCHANGED <<pdf, output_files, tocVars, docVars, valVars>>

StepParseTableOfContents ==
    /\ pc = "_parse_table_of_contents"
    /\ \E r \in {ParseTocText(NewTocParser,
                                TocText(parsing_results.page_extractions))} :
           /\ toc_parser' = r.parser
           /\ IF r.raised
              THEN /\ Fail("TypeError")
                   /\ UNCHANGED parsing_results
              ELSE /\ parsing_results' =
                          [parsing_results EXCEPT
                              !.toc_entries = r.entries,
                              !.toc_stats = TocParsingStatistics(r.parser)]
                   /\ pc' = "_parse_document_sections"
                   /\ UNCHANGED pipeline_return
    /\ UNCHANGED <<pdf, output_files, toc_input, toc_return, docVars, valVars>>

StepParseDocumentSections ==
    /\ pc = "_parse_document_sections"
    /\ doc_parser' = ParseDocumentSections(NewDocumentParser, parsing_results.toc_entries,
                                           parsing_results.page_extractions)
    /\ parsing_results' =
           [parsing_results EXCEPT
               !.document_sections = doc_parser'.document_sections,
               !.document_stats = DocParsingStatistics(doc_parser')]
    /\ tags_shared' = SharedTags(doc_parser'.document_sections)
    /\ pc' = "_generate_jsonl_files"
    /\ UNCHANGED <<pdf, output_files, pipeline_return, tocVars, doc_input, doc_return, valVars>>

StepGenerateJsonlFiles ==
    /\ pc = "_generate_jsonl_files"
    /\ IF ~pdf.writable
       THEN /\ Fail("OSError")
            /\ UNCHANGED <<parsing_results, output_files>>
       ELSE /\ output_files' =
                   [toc |-> TocJsonlLines(DocTitle(parsing_results.document_info),
                                          parsing_results.toc_entries),
                    document |-> DocumentJsonlLines(DocTitle(parsing_results.document_info),
                                                    parsing_results.document_sections)]
            /\ parsing_results' =
                   [parsing_results EXCEPT
                       !.generation_stats =
                           [toc |-> GenerateTocJsonl(parsing_results.toc_entries),
                            document |-> GenerateDocumentJsonl(parsing_results.document_sections),
                            metadata |-> GenerateMetadataJsonl]]
            /\ pc' = "_validate_and_report"
            /\ UNCHANGED pipeline_return
    /\ UNCHANGED <<pdf, tocVars, docVars, valVars>>

\* the Excel report is written or not; either way generate_excel_report
\* returns its statistics
StepValidateAndReport ==
    /\ pc = "_validate_and_report"
    /\ \E generated \in BOOLEAN,
          results \in {ValidateParsingResults(NewValidationResults,
                                              parsing_results.toc_entries,
                                              parsing_results.document_sections)} :
           /\ validation_results' = WithReportStats(results, ReportStats(results, generated))
           /\ parsing_results' =
                  [parsing_results EXCEPT !.validation_results = validation_results']
    /\ pc' = "_generate_parsing_summary"
    /\ UNCHANGED <<pdf, output_files, pipeline_return, tocVars, docVars, val_input, val_return>>

StepGenerateParsingSummary ==
    /\ pc = "_generate_parsing_summary"
    /\ pipeline_return' = Returned(ParsingSummary(parsing_results))
    /\ pc' = "done"
    /\ UNCHANGED <<pdf, parsing_results, output_files, tocVars, docVars, valVars>>

Next ==
    \/ StepExtractPdfContent
    \/ StepParseTableOfContents
    \/ StepParseDocumentSections
    \/ StepGenerateJsonlFiles
    \/ StepValidateAndReport
    \/ StepGenerateParsingSummary

Spec == Init /\ [][Next]_vars

-----------------------------------------------------------------------------
(* Properties of TOCParser.parse_toc_text *)

\* digits separated by single dots
DottedNumeric(id) ==
    /\ id # <<>>
    /\ \A i \in 1..Len(id) : id[i] \in Digits \cup {"."}
    /\ id[1] # "." /\ id[Len(id)] # "."
    /\ \A i \in 1..(Len(id) - 1) : ~(id[i] = "." /\ id[i + 1] = ".")

DotPositions(id) == {i \in 1..Len(id) : id[i] = "."}

WithoutLastComponent(id) == SubSeq(id, 1, SetMax(DotPositions(id)) - 1)

\* C3: every returned ToC entry with a dotted numeric section_id has
\* level = number of dots + 1, and parent_id = the id without its last
\* component, or no parent_id when the id has a single component.
C3_LevelAndParent ==
    toc_return.kind = "returned" =>
        \A i \in 1..Len(toc_return.value) :
            LET e == toc_return.value[i]
            IN  DottedNumeric(e.section_id) =>
                    /\ e.level = Cardinality(DotPositions(e.section_id)) + 1
                    /\ e.parent_id = IF DotPositions(e.section_id) = {} THEN None
                                     ELSE Some(WithoutLastComponent(e.section_id))

\* a returned list with an id of three components and an id of one
C3_Witness ==
    /\ toc_return.kind = "returned"
    /\ \E i, j \in 1..Len(toc_return.value) :
           /\ toc_return.value[i].section_id = <<"2", ".", "1", ".", "1">>
           /\ toc_return.value[i].level = 3
           /\ toc_return.value[i].parent_id = Some(<<"2", ".", "1">>)
           /\ toc_return.value[j].section_id = <<"1", "0", "0", "0">>
           /\ toc_return.value[j].level = 1
           /\ toc_return.value[j].parent_id = None

\* the entries TOCParser._create_toc_entries is to sort, for toc_input
Candidates ==
    LET filtered == FilterMatches(CollectPatternMatches(PreprocessText(toc_input)))
    IN  [i \in 1..Len(filtered) |-> MatchToEntry(filtered[i])]

\* the order of a list of entries after sorting it by the key again
Resorted(entries) ==
    SortByKey([i \in 1..Len(entries) |->
                  [key |-> EntrySortKey(entries[i]), item |-> entries[i]]])

\* C4: the key (page, _section_sort_key(section_id)) is total and sorting by
\* it is idempotent: any two of the entries to be sorted compare without
\* error, sorting the returned list again leaves it unchanged, and two
\* entries at different positions have equal keys only if they have the same
\* page and the same section_id.
C4_KeyTotalIdempotentInjective ==
    toc_return.kind # "none" =>
        /\ \A i, j \in 1..Len(Candidates) :
               CompareKey(EntrySortKey(Candidates[i]), EntrySortKey(Candidates[j])) # "TypeError"
        /\ toc_return.kind = "returned" =>
               /\ ~Resorted(toc_return.value).raised
               /\ [i \in 1..Len(toc_return.value) |-> Resorted(toc_return.value).v[i].item]
                      = toc_return.value
        /\ \A i, j \in 1..Len(Candidates) :
               (i # j /\ CompareKey(EntrySortKey(Candidates[i]), EntrySortKey(Candidates[j])) = "eq")
                   => /\ Candidates[i].page = Candidates[j].page
                      /\ Candidates[i].section_id = Candidates[j].section_id

\* the components of a dotted numeric id as integers, zero-padded to depth 5
NumericComponents(id) ==
    LET parts == Split(id, ".")
    IN  [i \in 1..5 |-> IF i <= Len(parts) THEN ParseInt(parts[i]) ELSE 0]

\* x <= y for two sequences of integers of the same length, component-wise
LexLeq(x, y) ==
    \/ x = y
    \/ \E k \in 1..Len(x) : /\ \A i \in 1..(k - 1) : x[i] = y[i]
                            /\ x[k] < y[k]

\* entry a may stand before entry b
InOrder(a, b) ==
    \/ a.page < b.page
    \/ /\ a.page = b.page
       /\ CompareKey(SectionSortKey(a.section_id), SectionSortKey(b.section_id)) \in {"lt", "eq"}
       /\ (DottedNumeric(a.section_id) /\ DottedNumeric(b.section_id))
              => LexLeq(NumericComponents(a.section_id), NumericComponents(b.section_id))

ScenarioA == <<"2 Overview .... 15", "2.1 Basics .... 15", "2.2 Scope .... 22">>

IsScenarioA(text) ==
    Len(text) = 3 /\ {text[i] : i \in 1..3} = {ScenarioA[i] : i \in 1..3}

\* C5: the list parse_toc_text returns is in non-decreasing order of
\* (page, hierarchical sort key), dotted numeric ids being compared
\* component-wise as integers, whatever the hierarchy, confidence and tag
\* steps did after the sort; the three lines 2 (page 15), 2.1 (page 15),
\* 2.2 (page 22), in any order, give 2, 2.1, 2.2 with levels 1, 2, 2 and
\* parent_id 2 for both level-2 entries.
C5_ReturnedInKeyOrder ==
    toc_return.kind = "returned" =>
        /\ \A i, j \in 1..Len(toc_return.value) :
               i < j => InOrder(toc_return.value[i], toc_return.value[j])
        /\ IsScenarioA(toc_input) =>
               /\ [i \in 1..Len(toc_return.value) |-> toc_return.value[i].section_id]
                      = << <<"2">>, <<"2", ".", "1">>, <<"2", ".", "2">> >>
               /\ [i \in 1..Len(toc_return.value) |-> toc_return.value[i].level] = <<1, 2, 2>>
               /\ [i \in 1..Len(toc_return.value) |-> toc_return.value[i].parent_id]
                      = << None, Some(<<"2">>), Some(<<"2">>) >>

\* the lines of scenario A given in reverse, and returned in order
C5_Witness ==
    /\ toc_input = <<ScenarioA[3], ScenarioA[2], ScenarioA[1]>>
    /\ toc_return.kind = "returned"
    /\ Len(toc_return.value) = 3
    /\ toc_return.value[1].section_id = <<"2">>
    /\ toc_return.value[3].page = 22

-----------------------------------------------------------------------------
(* Properties of DocumentParser.parse_document_sections *)

\* C1: every section parse_document_sections returns has, when page_end is
\* present, page_end >= page_start.
C1_PageEndNotBeforeStart ==
    doc_return.kind = "returned" =>
        \A i \in 1..Len(doc_return.value) :
            doc_return.value[i].page_end # None
                => Get(doc_return.value[i].page_end) >= doc_return.value[i].page_start

\* the page-ordered list of the entries given to the call
PageOrdered == SortByPage(doc_input.toc_entries)

\* the entries after index i whose level is not deeper than that of entry i
LaterNotDeeper(i) ==
    {j \in (i + 1)..Len(PageOrdered) : PageOrdered[j].level <= PageOrdered[i].level}

\* the end page the entry at index i is to get
InferredEnd(i) ==
    IF LaterNotDeeper(i) = {} THEN None
    ELSE Some(PageOrdered[CHOOSE j \in LaterNotDeeper(i) :
                              \A k \in LaterNotDeeper(i) : j <= k].page - 1)

\* C2: the section of the entry at index i of the page-ordered list has
\* page_end = (page of the first later entry whose level is <= its level) - 1,
\* deeper entries being skipped, and no page_end if there is no such entry.
\* When no entry failed, section i belongs to entry i; otherwise every
\* section belongs to some entry.
C2_EndPageInference ==
    doc_return.kind = "returned" =>
        /\ doc_parser.parsing_stats.content_extraction_errors = 0 =>
               /\ Len(doc_return.value) = Len(PageOrdered)
               /\ \A i \in 1..Len(PageOrdered) :
                      /\ doc_return.value[i].section_id = PageOrdered[i].section_id
                      /\ doc_return.value[i].page_start = PageOrdered[i].page
                      /\ doc_return.value[i].page_end = InferredEnd(i)
        /\ \A k \in 1..Len(doc_return.value) :
               \E i \in 1..Len(PageOrdered) :
                   /\ doc_return.value[k].section_id = PageOrdered[i].section_id
                   /\ doc_return.value[k].page_start = PageOrdered[i].page
                   /\ doc_return.value[k].page_end = InferredEnd(i)

\* section 4 starts at page 25, 4.1 is deeper and skipped, 5 starts at page
\* 30: section 4 ends at page 29, and section 5 has no end page
C2_Witness ==
    /\ doc_return.kind = "returned"
    /\ Len(doc_return.value) = 3
    /\ doc_return.value[1].section_id = <<"4">>
    /\ doc_return.value[1].page_start = 25
    /\ doc_return.value[1].page_end = Some(29)
    /\ doc_return.value[2].section_id = <<"4", ".", "1">>
    /\ doc_return.value[3].section_id = <<"5">>
    /\ doc_return.value[3].page_start = 30
    /\ doc_return.value[3].page_end = None

\* C7: the confidence of every ToC entry parse_toc_text returns and of every
\* section parse_document_sections returns lies in [0, 1] (0..10000 in units
\* of 1/10000).
C7_ConfidenceInUnitInterval ==
    /\ toc_return.kind = "returned" =>
           \A i \in 1..Len(toc_return.value) :
               toc_return.value[i].confidence_score \in 0..10000
    /\ doc_return.kind = "returned" =>
           \A i \in 1..Len(doc_return.value) :
               doc_return.value[i].confidence_score \in 0..10000

\* a section of more than 50 words at the upper end and a section of
\* unreadable text at the lower end
C7_Witness ==
    /\ doc_return.kind = "returned"
    /\ \E i, j \in 1..Len(doc_return.value) :
           /\ doc_return.value[i].confidence_score = 10000
           /\ doc_return.value[i].word_count > 50
           /\ doc_return.value[j].confidence_score < 10000

-----------------------------------------------------------------------------
(* Properties of ValidationReport.validate_parsing_results *)

TocIds == {val_input.toc_entries[i].section_id : i \in 1..Len(val_input.toc_entries)}

SectionIds ==
    {val_input.document_sections[i].section_id : i \in 1..Len(val_input.document_sections)}

\* the ids of a list of rows, and whether no id occurs twice in it
RowIds(rows) == {rows[i].section_id : i \in 1..Len(rows)}

NoRepeatedId(rows) == Cardinality(RowIds(rows)) = Len(rows)

\* C6: after validate_parsing_results, missing_sections holds exactly the ids
\* of the ToC entries that no section has, extra_sections exactly the ids of
\* the sections that no ToC entry has, section_comparison exactly one row per
\* id present on both sides, and matched_sections_count is the number of
\* those ids; no id of missing_sections or extra_sections is in
\* section_comparison.  ToC ids {1, 1.1} and section ids {1} give missing
\* {1.1}, no extra section and matched_sections_count 1.
C6_CoverageExact ==
    val_return.kind = "returned" =>
        LET R == val_return.value
            compared == {r.section_id : r \in R.section_comparison}
        IN  /\ RowIds(R.missing_sections) = TocIds \ SectionIds
            /\ NoRepeatedId(R.missing_sections)
            /\ RowIds(R.extra_sections) = SectionIds \ TocIds
            /\ NoRepeatedId(R.extra_sections)
            /\ compared = TocIds \cap SectionIds
            /\ Cardinality(R.section_comparison) = Cardinality(TocIds \cap SectionIds)
            /\ R.statistics.matched_sections_count = Cardinality(TocIds \cap SectionIds)
            /\ compared \cap (RowIds(R.missing_sections) \cup RowIds(R.extra_sections)) = {}
            /\ (TocIds = {<<"1">>, <<"1", ".", "1">>} /\ SectionIds = {<<"1">>}) =>
                   /\ RowIds(R.missing_sections) = {<<"1", ".", "1">>}
                   /\ R.extra_sections = <<>>
                   /\ R.statistics.matched_sections_count = 1

\* ToC entries 1 and 1.1 validated against the one section 1
C6_Witness ==
    /\ val_return.kind = "returned"
    /\ [i \in 1..Len(val_input.toc_entries) |-> val_input.toc_entries[i].section_id]
           = << <<"1">>, <<"1", ".", "1">> >>
    /\ [i \in 1..Len(val_input.document_sections) |-> val_input.document_sections[i].section_id]
           = << <<"1">> >>
    /\ Len(val_return.value.missing_sections) = 1
    /\ val_return.value.missing_sections[1].section_id = <<"1", ".", "1">>
    /\ val_return.value.statistics.matched_sections_count = 1

\* the verdict for a match rate (a fraction) and a number of quality issues
Verdict(rate, issues) ==
    IF 100 * rate.num >= 95 * rate.den /\ issues = 0 THEN "Excellent"
    ELSE IF 100 * rate.num >= 85 * rate.den /\ issues <= 2 THEN "Good"
    ELSE IF 100 * rate.num >= 70 * rate.den THEN "Fair"
    ELSE "Poor"

\* C8: the summary status of validate_parsing_results is decided by
\* overall_match_rate and quality_issues_count alone: Excellent iff rate >=
\* 0.95 and no quality issue, else Good iff rate >= 0.85 and at most 2
\* quality issues, else Fair iff rate >= 0.70, else Poor.  Rate 1.0 without
\* quality issues gives Excellent; rate 0.72 gives Fair for every number of
\* quality issues.
C8_SummaryVerdict ==
    val_return.kind = "returned" =>
        LET summary == val_return.value.summary
            stats == val_return.value.statistics
            rate == stats.overall_match_rate
        IN  /\ summary.status = Verdict(rate, stats.quality_issues_count)
            /\ summary.overall_match_rate = rate
            /\ (rate.num = rate.den /\ stats.quality_issues_count = 0)
                   => summary.status = "Excellent"
            /\ 100 * rate.num = 72 * rate.den => summary.status = "Fair"

\* 25 ToC entries and sections for 11 of them, three of them flagged: match
\* rate (11/25 + 1) / 2 = 0.72
C8_Witness ==
    /\ val_return.kind = "returned"
    /\ 100 * val_return.value.statistics.overall_match_rate.num
           = 72 * val_return.value.statistics.overall_match_rate.den
    /\ val_return.value.statistics.quality_issues_count = 3
    /\ val_return.value.summary.status = "Fair"

\* C9: every section with word_count < 10 has a record in quality_issues,
\* and the severity of every record of quality_issues is High exactly when
\* the section's confidence is < 0.3 or its word_count is < 5, and Medium
\* otherwise; a section of 3 words is listed with severity High whatever
\* its confidence.
C9_QualitySeverity ==
    val_return.kind = "returned" =>
        LET Q == val_return.value.quality_issues
            Rec(section, r) == /\ r.section_id = section.section_id
                               /\ r.word_count = section.word_count
                               /\ r.confidence_score = section.confidence_score
        IN  /\ \A i \in 1..Len(val_input.document_sections) :
                   LET section == val_input.document_sections[i]
                   IN  /\ section.word_count < 10 => \E k \in 1..Len(Q) : Rec(section, Q[k])
                       /\ section.word_count = 3 =>
                              \E k \in 1..Len(Q) : Rec(section, Q[k]) /\ Q[k].severity = "High"
            /\ \A k \in 1..Len(Q) :
                   /\ \E i \in 1..Len(val_input.document_sections) :
                          Rec(val_input.document_sections[i], Q[k])
                   /\ Q[k].severity \in {"High", "Medium"}
                   /\ Q[k].severity = "High"
                          <=> (Q[k].confidence_score < 3000 \/ Q[k].word_count < 5)

\* a section of 3 words with confidence 0.9 listed with severity High, next
\* to a section of 5 words with confidence 0.3 listed with severity Medium
C9_Witness ==
    /\ val_return.kind = "returned"
    /\ \E k, m \in 1..Len(val_return.value.quality_issues) :
           /\ val_return.value.quality_issues[k].word_count = 3
           /\ val_return.value.quality_issues[k].confidence_score = 9000
           /\ val_return.value.quality_issues[k].severity = "High"
           /\ val_return.value.quality_issues[m].word_count = 5
           /\ val_return.value.quality_issues[m].confidence_score = 3000
           /\ val_return.value.quality_issues[m].severity = "Medium"

\* the subsequence of the ids of the page-ordered entries with an outcome
RECURSIVE IdsWith(_, _, _)
IdsWith(outcome, kind, n) ==
    IF n = 0 THEN <<>>
    ELSE IdsWith(outcome, kind, n - 1)
         \o (IF outcome[n] = kind THEN <<PageOrdered[n].section_id>> ELSE <<>>)

\* the ways to give each entry exactly one outcome that account for the
\* sections returned and the errors recorded, in the order of the entries
Outcomes ==
    {outcome \in [1..Len(PageOrdered) -> {"section", "error"}] :
        /\ IdsWith(outcome, "section", Len(PageOrdered))
               = [k \in 1..Len(doc_return.value) |-> doc_return.value[k].section_id]
        /\ IdsWith(outcome, "error", Len(PageOrdered))
               = doc_parser.parsing_stats.warnings}

-----------------------------------------------------------------------------
(* Properties of USBPDSpecificationParser.parse_pdf *)

\* a complete ValidationResult: the summary with status and
\* overall_match_rate, the five issue lists and the statistics
CompleteValidationResult(r) ==
    /\ {"summary", "section_comparison", "missing_sections", "extra_sections",
        "page_mismatches", "quality_issues", "statistics"} \subseteq DOMAIN r
    /\ {"status", "overall_match_rate"} \subseteq DOMAIN r.summary
    /\ DOMAIN r.statistics # {}

\* C10: every run of parse_pdf ends with a complete ValidationResult stored
\* in its parsing results, also on an empty page corpus, when no ToC entry is
\* recognised and when an earlier stage fails.
C10_EveryRunValidates ==
    pc = "done" => CompleteValidationResult(parsing_results.validation_results)

\* a run that went through all stages, found ToC entries, parsed sections
\* and wrote all JSONL files, with the validation verdict Poor
PoorRun ==
    /\ pc = "done"
    /\ pipeline_return.kind = "returned"
    /\ "quality_metrics" \in DOMAIN pipeline_return.value
    /\ pipeline_return.value.quality_metrics.validation_status = "Poor"
    /\ Len(parsing_results.toc_entries) > 0
    /\ Len(parsing_results.document_sections) > 0
    /\ \A key \in DOMAIN parsing_results.generation_stats :
           parsing_results.generation_stats[key].successfully_written > 0

\* C11: the verdict Poor alone never makes parse_pdf report success = False
\* nor makes the command-line entry point report that parsing failed.
C11_PoorIsNotFailure ==
    PoorRun => /\ pipeline_return.value.success
               /\ Main(pipeline_return.value).printed # "Parsing failed"

\* the stages of parse_pdf in the order of its body, and the key of the
\* parsing results each of the first five writes
StageOrder ==
    <<"_extract_pdf_content", "_parse_table_of_contents", "_parse_document_sections",
      "_generate_jsonl_files", "_validate_and_report", "_generate_parsing_summary">>

StageKey ==
    <<"page_extractions", "toc_entries", "document_sections", "generation_stats",
      "validation_results">>

\* no stage from the i-th on has written its key
NotStartedFrom(results, i) ==
    \A k \in i..Len(StageKey) : results[StageKey[k]] = NewParsingResults[StageKey[k]]

\* C12: the stages run strictly in the order extraction, ToC, sections,
\* JSONL, validation, summary; a stage starts only when the one before it
\* has completed; when a stage fails no later stage is started and parse_pdf
\* returns success = False with an error cause instead of raising.
C12_StagesInOrder ==
    [][\E i \in 1..Len(StageOrder) :
          /\ pc = StageOrder[i]
          /\ pipeline_return = NotCalled
          /\ NotStartedFrom(parsing_results, i)
          /\ \/ /\ i < Len(StageOrder)
                /\ pc' = StageOrder[i + 1]
                /\ pipeline_return' = NotCalled
             \/ /\ i = Len(StageOrder)
                /\ pc' = "done"
                /\ pipeline_return'.kind = "returned"
                /\ "error" \notin DOMAIN pipeline_return'.value
             \/ /\ pc' = "done"
                /\ NotStartedFrom(parsing_results', i + 1)
                /\ pipeline_return'.kind = "returned"
                /\ DOMAIN pipeline_return'.value = {"success", "error"}
                /\ pipeline_return'.value.success = FALSE
                /\ pipeline_return'.value.error # ""]_vars

\* a run that fails in the fourth stage, after ToC entries and sections were
\* found: it ends with the failure result and without validation results
C12_Witness ==
    /\ pc = "done"
    /\ pipeline_return = Returned(Failure("OSError"))
    /\ Len(parsing_results.toc_entries) > 0
    /\ Len(parsing_results.document_sections) > 0
    /\ parsing_results.generation_stats = EmptyDict
    /\ parsing_results.validation_results = EmptyDict

-----------------------------------------------------------------------------
(* Further properties of TOCParser.parse_toc_text *)

\* C14: parse_toc_text never aborts: for every text it returns a list of
\* entries without raising, and a text that is empty or holds only noise
\* lines yields the empty list.
C14_NeverAborts ==
    pc = "done" /\ toc_return # NotCalled =>
        /\ toc_return.kind = "returned"
        /\ PreprocessText(toc_input) = <<>> => toc_return.value = <<>>

\* C16: every entry parse_toc_text returns, whichever pattern recognized
\* it, has a page from 1 to 5000 and a title of 2 to 200 characters.
C16_PageAndTitleBounds ==
    toc_return # NotCalled /\ toc_return.kind = "returned" =>
        \A i \in 1..Len(toc_return.value) :
            /\ toc_return.value[i].page \in 1..5000
            /\ toc_return.value[i].title.len \in 2..200

\* the place of a pattern in TOCParser.all_patterns
PatternIndex(pattern) == CHOOSE p \in 1..Len(PatternNames) : PatternNames[p] = pattern

\* the candidate i of the candidates of one span is valid and no candidate
\* of an earlier pattern is
WinsSpan(candidates, i) ==
    /\ ValidateMatch(candidates[i])
    /\ \A j \in 1..Len(candidates) :
           PatternIndex(candidates[j].pattern) < PatternIndex(candidates[i].pattern)
               => ~ValidateMatch(candidates[j])

\* the entry is made of the match
MadeOf(entry, m) ==
    /\ entry.raw_line = m.raw_line
    /\ entry.section_id = MatchToEntry(m).section_id
    /\ entry.title = m.title
    /\ entry.page = ParseInt(m.page)

\* the lines of the text with a valid candidate
LinesWithValidMatch(cleaned) ==
    {k \in 1..Len(cleaned) :
        \E i \in 1..Len(LineMatches(cleaned, k)) : ValidateMatch(LineMatches(cleaned, k)[i])}

BeginsWithWord(section_id, word) == StartsWith(Lower(section_id), Lower(word))

\* the band of an entry: 1 main body (dotted numeric and chapter),
\* 2 appendix, 3 reference, 4 table or figure caption
Band(section_id) ==
    IF BeginsWithWord(section_id, kwAppendix) THEN 2
    ELSE IF section_id = kwREF THEN 3
    ELSE IF BeginsWithWord(section_id, kwTable) \/ BeginsWithWord(section_id, kwFigure) THEN 4
    ELSE 1

\* C18: among the returned entries of one page those of the main body
\* (dotted numeric and chapter) come before the appendices, the appendices
\* before the references, and the table and figure captions after all others.
C18_PriorityBands ==
    toc_return.kind = "returned" =>
        \A i, j \in 1..Len(toc_return.value) :
            /\ toc_return.value[i].page = toc_return.value[j].page
            /\ Band(toc_return.value[i].section_id) < Band(toc_return.value[j].section_id)
            => i < j

\* the part of C18 that holds: the bands of the entries other than chapters
\* and captions in lower case
C18_BandsWithoutChapters ==
    toc_return.kind = "returned" =>
        \A i, j \in 1..Len(toc_return.value) :
            /\ toc_return.value[i].page = toc_return.value[j].page
            /\ Band(toc_return.value[i].section_id) < Band(toc_return.value[j].section_id)
            /\ \A k \in {i, j} :
                   /\ ~BeginsWithWord(toc_return.value[k].section_id, kwChapter)
                   /\ Band(toc_return.value[k].section_id) = 4 =>
                          \/ StartsWith(toc_return.value[k].section_id, kwTable)
                          \/ StartsWith(toc_return.value[k].section_id, kwFigure)
            => i < j

\* C19: a returned appendix, chapter or reference entry has level 1 and a
\* table or figure entry level 3, in whatever letter case the line is
\* written, and none of them has a parent_id.
C19_FixedLevels ==
    toc_return.kind = "returned" =>
        \A i \in 1..Len(toc_return.value) :
            LET e == toc_return.value[i]
            IN  /\ \/ BeginsWithWord(e.section_id, kwAppendix)
                   \/ BeginsWithWord(e.section_id, kwChapter)
                   \/ e.section_id = kwREF
                   => e.level = 1 /\ e.parent_id = None
                /\ \/ BeginsWithWord(e.section_id, kwTable)
                   \/ BeginsWithWord(e.section_id, kwFigure)
                   => e.level = 3 /\ e.parent_id = None

\* the part of C19 that holds: the entries written with a capital initial
C19_FixedLevelsCapitalised ==
    toc_return.kind = "returned" =>
        \A i \in 1..Len(toc_return.value) :
            LET e == toc_return.value[i]
            IN  /\ \/ StartsWith(e.section_id, kwAppendix)
                   \/ StartsWith(e.section_id, kwChapter)
                   \/ e.section_id = kwREF
                   => e.level = 1 /\ e.parent_id = None
                /\ \/ StartsWith(e.section_id, kwTable)
                   \/ StartsWith(e.section_id, kwFigure)
                   => e.level = 3 /\ e.parent_id = None
                /\ BeginsWithWord(e.section_id, kwTable) => e.parent_id = None

-----------------------------------------------------------------------------
(* Further properties of ValidationReport.validate_parsing_results *)

\* C17: every section whose page_end is present and smaller than its
\* page_start has a record in quality_issues whose issues name the invalid
\* page range, for every value of page_end, 0 included.
C17_InvalidPageRangeFlagged ==
    val_return.kind = "returned" =>
        \A i \in 1..Len(val_input.document_sections) :
            LET section == val_input.document_sections[i]
                Q == val_return.value.quality_issues
            IN  section.page_end # None /\ Get(section.page_end) < section.page_start =>
                    \E k \in 1..Len(Q) :
                        /\ Q[k].section_id = section.section_id
                        /\ Q[k].page_start = section.page_start
                        /\ Q[k].word_count = section.word_count
                        /\ Q[k].confidence_score = section.confidence_score
                        /\ \E n \in 1..Len(Q[k].issues) : Q[k].issues[n] = "Invalid page range"

\* two fractions are the same number, and a fraction is a number of [0, 1]
SameNumber(a, b) == a.den > 0 /\ b.den > 0 /\ a.num * b.den = b.num * a.den
InUnitInterval(a) == a.den > 0 /\ 0 <= a.num /\ a.num <= a.den

\* the ids that are the id of an entry and of a section
CommonIds(input) ==
    {input.toc_entries[i].section_id : i \in 1..Len(input.toc_entries)}
    \cap {input.document_sections[j].section_id : j \in 1..Len(input.document_sections)}

\* C21: toc_match_rate is matched / max(1, number of entries),
\* document_match_rate is matched / max(1, number of sections),
\* overall_match_rate is their mean, and the three lie in [0, 1], for empty
\* lists and lists with repeated ids too.
C21_MatchRates ==
    val_return.kind = "returned" =>
        LET stats == val_return.value.statistics
            matched == Cardinality(CommonIds(val_input))
            toc_count == Len(val_input.toc_entries)
            doc_count == Len(val_input.document_sections)
            toc_rate == Fraction(matched, IF toc_count = 0 THEN 1 ELSE toc_count)
            doc_rate == Fraction(matched, IF doc_count = 0 THEN 1 ELSE doc_count)
        IN  /\ SameNumber(stats.toc_match_rate, toc_rate)
            /\ SameNumber(stats.document_match_rate, doc_rate)
            /\ SameNumber(stats.overall_match_rate,
                          Fraction(toc_rate.num * doc_rate.den + doc_rate.num * toc_rate.den,
                                   2 * toc_rate.den * doc_rate.den))
            /\ InUnitInterval(stats.toc_match_rate)
            /\ InUnitInterval(stats.document_match_rate)
            /\ InUnitInterval(stats.overall_match_rate)

\* two entries of the same id against its one section: the ToC rate is
\* 1/2, the document rate 1 and the overall rate 3/4
C21_Witness ==
    /\ val_return.kind = "returned"
    /\ Len(val_input.toc_entries) = 2
    /\ val_input.toc_entries[1].section_id = val_input.toc_entries[2].section_id
    /\ Len(val_input.document_sections) = 1
    /\ SameNumber(val_return.value.statistics.toc_match_rate, Fraction(1, 2))
    /\ SameNumber(val_return.value.statistics.document_match_rate, Fraction(1, 1))
    /\ SameNumber(val_return.value.statistics.overall_match_rate, Fraction(3, 4))

\* C22: after any sequence of calls on one ValidationReport the five issue
\* lists, the statistics and the status of the summary are those a new
\* ValidationReport gives for the arguments of the last call alone.
C22_RecomputedFresh ==
    val_return.kind = "returned" =>
        LET fresh == ValidateParsingResults(NewValidationResults, val_input.toc_entries,
                                            val_input.document_sections)
        IN  /\ val_return.value = validation_results
            /\ validation_results.section_comparison = fresh.section_comparison
            /\ validation_results.missing_sections = fresh.missing_sections
            /\ validation_results.extra_sections = fresh.extra_sections
            /\ validation_results.page_mismatches = fresh.page_mismatches
            /\ validation_results.quality_issues = fresh.quality_issues
            /\ validation_results.statistics = fresh.statistics
            /\ validation_results.summary.status = fresh.summary.status
            /\ Len(validation_results.missing_sections)
                   <= Len(val_input.toc_entries)
            /\ Len(validation_results.quality_issues)
                   <= Len(val_input.document_sections)

\* a further call with empty lists, after which every issue list is empty
\* whatever the calls before it found
C22_Witness ==
    /\ pc = "called again"
    /\ val_input = [toc_entries |-> <<>>, document_sections |-> <<>>]
    /\ val_return.kind = "returned"
    /\ val_return.value.missing_sections = <<>>
    /\ val_return.value.extra_sections = <<>>
    /\ val_return.value.quality_issues = <<>>
    /\ val_return.value.page_mismatches = {}
    /\ val_return.value.section_comparison = {}
    /\ val_return.value.statistics.toc_sections_count = 0

-----------------------------------------------------------------------------
(* Properties of the content analysis *)

\* C25: a returned section of non-empty content classified as table has
\* table_count > 0 and has_tables, and one classified as figure has
\* figure_count > 0, content of fewer than 50 words without any indicator
\* included.
C25_TypeAgreesWithFlags ==
    doc_return.kind = "returned" =>
        \A k \in 1..Len(doc_return.value) :
            LET section == doc_return.value[k]
            IN  ContentLines(section.content) # <<>> =>
                    /\ section.content_type = "table" =>
                           section.table_count > 0 /\ section.has_tables
                    /\ section.content_type = "figure" =>
                           section.figure_count > 0 /\ section.has_figures

\* the part of C25 that holds: the sections of 50 words or more
C25_TypeAgreesFromFiftyWords ==
    doc_return.kind = "returned" =>
        \A k \in 1..Len(doc_return.value) :
            LET section == doc_return.value[k]
            IN  section.word_count >= 50 =>
                    /\ section.content_type = "table" =>
                           section.table_count > 0 /\ section.has_tables
                    /\ section.content_type = "figure" =>
                           section.figure_count > 0 /\ section.has_figures

-----------------------------------------------------------------------------
(* Properties of the ToC entries handed to the later stages *)

\* C23: parse_document_sections and validate_parsing_results leave every
\* field of every entry of the caller's list, and the order of the list, as
\* they are, and a change of the tags of a section does not change the tags
\* of its entry: no step changes the list of entries.
C23_EntriesReadOnly ==
    [][/\ doc_input'.toc_entries = doc_input.toc_entries
       /\ val_input'.toc_entries = val_input.toc_entries]_vars

\* the call was given entries that are not in page order and has returned,
\* the tags of a section were changed, and its entry has the tags it had
C23_Witness ==
    /\ pc = "changed"
    /\ doc_input.toc_entries # SortByPage(doc_input.toc_entries)
    /\ \E k \in 1..Len(doc_return.value) :
           /\ "changed" \in doc_return.value[k].tags
           /\ \E i \in 1..Len(doc_input.toc_entries) :
                  /\ doc_input.toc_entries[i].section_id = doc_return.value[k].section_id
                  /\ doc_input.toc_entries[i].tags # {}
                  /\ "changed" \notin doc_input.toc_entries[i].tags
    /\ \A i \in 1..Len(doc_input.toc_entries) :
           "changed" \notin doc_input.toc_entries[i].tags

\* C27: for all inputs, lists with repeated ids included, matched + missing
\* is the number of entries, matched + extra is the number of sections, and
\* matched is the number of rows of section_comparison.
C27_StatisticsConsistent ==
    val_return.kind = "returned" =>
        LET stats == val_return.value.statistics
        IN  /\ stats.matched_sections_count + stats.missing_sections_count
                   = stats.toc_sections_count
            /\ stats.matched_sections_count + stats.extra_sections_count
                   = stats.document_sections_count
            /\ stats.matched_sections_count
                   = Cardinality(val_return.value.section_comparison)

\* the part of C27 that holds: the counts of distinct ids
C27_DistinctIdsConsistent ==
    val_return.kind = "returned" =>
        LET stats == val_return.value.statistics
            toc_ids == {val_input.toc_entries[i].section_id :
                           i \in 1..Len(val_input.toc_entries)}
            doc_ids == {val_input.document_sections[i].section_id :
                           i \in 1..Len(val_input.document_sections)}
        IN  /\ stats.matched_sections_count + stats.missing_sections_count
                   = Cardinality(toc_ids)
            /\ stats.matched_sections_count + stats.extra_sections_count
                   = Cardinality(doc_ids)
            /\ stats.matched_sections_count
                   = Cardinality(val_return.value.section_comparison)
            /\ Cardinality(toc_ids) = Len(val_input.toc_entries)
                   => stats.matched_sections_count + stats.missing_sections_count
                          = stats.toc_sections_count

-----------------------------------------------------------------------------
(* Properties of the page ranges along the hierarchy *)

\* the section is the one made of the i-th entry in page order
MadeOfEntry(section, sorted_toc, i) ==
    /\ section.section_id = sorted_toc[i].section_id
    /\ section.title = sorted_toc[i].title
    /\ section.level = sorted_toc[i].level
    /\ section.page_start = sorted_toc[i].page
    /\ section.page_end = DetermineSectionEndPage(sorted_toc[i], sorted_toc, i)

\* the j-th entry is one the end-page inference of the i-th entry passes
\* over: every entry from the one after the i-th to the j-th is deeper
SkippedAsNested(sorted_toc, i, j) ==
    /\ i < j
    /\ \A k \in (i + 1)..j : sorted_toc[k].level > sorted_toc[i].level

\* for every returned section with a page_end, every entry skipped as nested
\* in it satisfies Within(section, entry)
NestedEntries(Within(_, _)) ==
    doc_return.kind = "returned"
    => LET Nest(sorted_toc) ==
               \A n \in 1..Len(doc_return.value) :
                   \A i \in 1..Len(sorted_toc), j \in 1..Len(sorted_toc) :
                       /\ MadeOfEntry(doc_return.value[n], sorted_toc, i)
                       /\ doc_return.value[n].page_end # None
                       /\ SkippedAsNested(sorted_toc, i, j)
                       => Within(doc_return.value[n], sorted_toc[j])
       IN  Nest(SortByPage(doc_input.toc_entries))

\* C29: page ranges nest along the hierarchy: for every section with a
\* page_end, every ToC entry that the end-page inference skipped as nested in
\* it starts on a page within [page_start, page_end] of the section
C29_PageRangesNest ==
    NestedEntries(LAMBDA section, entry :
                      /\ section.page_start <= entry.page
                      /\ entry.page <= Get(section.page_end))

\* a nested entry starts no earlier than its section and no later than the
\* page after the section's page_end, which is the page of the boundary entry
C29_NestedUpToBoundaryPage ==
    NestedEntries(LAMBDA section, entry :
                      /\ section.page_start <= entry.page
                      /\ entry.page <= Get(section.page_end) + 1)

-----------------------------------------------------------------------------
(* Properties of the content type *)

\* C30: _determine_content_type never returns protocol: for every
\* combination of its arguments the result is one of table, figure, code,
\* state_machine, text or mixed, and no section that parse_document_sections
\* returns has the content type protocol
C30_NeverProtocol ==
    LET types == {"table", "figure", "code", "state_machine", "text", "mixed"}
    IN  /\ pc = "determined" => doc_return.value \in types
        /\ pc = "done" /\ doc_return.kind = "returned"
           => \A n \in 1..Len(doc_return.value) :
                  doc_return.value[n].content_type \in types

\* the score of code and protocol is the only highest one, and the result
\* is code
C30_Witness ==
    /\ pc = "determined"
    /\ ~doc_input.has_tables /\ ~doc_input.has_figures
    /\ Min(doc_input.code_indicators, 5) > 2 * doc_input.state_machine_indicators
    /\ Min(doc_input.code_indicators, 5) > doc_input.word_count \div 50
    /\ doc_return.value = "code"

\* a section of parse_document_sections whose content type is code
C30_SectionOfCode ==
    /\ pc = "done" /\ doc_return.kind = "returned"
    /\ \E n \in 1..Len(doc_return.value) : doc_return.value[n].content_type = "code"

-----------------------------------------------------------------------------
(* Properties of the counters of a DocumentParser that is used again *)

\* C28: after any sequence of parse_document_sections calls on one
\* DocumentParser the counters describe the last call: the sections counted
\* as parsed and the extraction errors together are no more than the
\* sections attempted, and the sections counted as parsed are as many as the
\* call returned
C28_CountersDescribeLastCall ==
    doc_return.kind = "returned"
    => LET stats == doc_parser.parsing_stats
       IN  /\ stats.sections_successfully_parsed + stats.content_extraction_errors
                  <= stats.total_sections_attempted
           /\ stats.sections_successfully_parsed = Len(doc_return.value)

\* what is assigned at each call does describe the last call: the sections
\* attempted are the entries given, get_parsing_statistics counts the
\* sections of the last call, and the counters never fall below them
C28_AssignedDescribeLastCall ==
    doc_return.kind = "returned"
    => LET stats == doc_parser.parsing_stats
       IN  /\ stats.total_sections_attempted = Len(doc_input.toc_entries)
           /\ doc_parser.document_sections = doc_return.value
           /\ Len(doc_return.value) <= stats.sections_successfully_parsed
           /\ doc_return.value # <<>>
              => DocParsingStatistics(doc_parser).total_sections_parsed
                     = Len(doc_return.value)

\* a first call on a new parser is described by its counters
C28_FirstCallDescribed ==
    pc = "done"
    => LET stats == doc_parser.parsing_stats
       IN  /\ stats.sections_successfully_parsed + stats.content_extraction_errors
                  = stats.total_sections_attempted
           /\ stats.sections_successfully_parsed = Len(doc_return.value)

-----------------------------------------------------------------------------
(* Properties of the validation of the sections made of a ToC *)

\* the section is listed in quality_issues
ListedInQualityIssues(section, quality_issues) ==
    \E k \in 1..Len(quality_issues) :
        /\ quality_issues[k].section_id = section.section_id
        /\ quality_issues[k].page_start = section.page_start
        /\ quality_issues[k].word_count = section.word_count
        /\ quality_issues[k].confidence_score = section.confidence_score

\* C24: when parse_document_sections made a section of every entry of a
\* non-empty list, the section of the last entry in page order has no
\* page_end, carries the note that it continues to the end of the document
\* and is listed in quality_issues, so that quality_issues_count >= 1 and
\* the status is not Excellent.
C24_NeverExcellent ==
    /\ pc = "validated"
    /\ val_input.toc_entries # <<>>
    /\ Len(val_input.document_sections) = Len(val_input.toc_entries)
    => LET last == val_input.document_sections[Len(val_input.document_sections)]
       IN  /\ last.section_id = PageOrdered[Len(PageOrdered)].section_id
           /\ last.page_end = None
           /\ \E n \in 1..Len(last.extraction_notes) :
                  last.extraction_notes[n] = "Section continues to end of document"
           /\ ListedInQualityIssues(last, val_return.value.quality_issues)
           /\ val_return.value.statistics.quality_issues_count >= 1
           /\ val_return.value.summary.status # "Excellent"

\* every entry has its section, all ids match, and the open-ended last
\* section is the only one listed: the status is Good
C24_Witness ==
    /\ pc = "validated"
    /\ Len(val_input.toc_entries) >= 2
    /\ Len(val_input.document_sections) = Len(val_input.toc_entries)
    /\ SameNumber(val_return.value.statistics.overall_match_rate, Fraction(1, 1))
    /\ val_return.value.statistics.quality_issues_count = 1
    /\ val_return.value.summary.status = "Good"

\* C26: the validation of a list of entries, in any order and with
\* repeated ids, against the sections parse_document_sections made of it
\* gives no extra section, no page mismatch and the status OK in every row
\* of section_comparison.
C26_SectionsAgreeWithToc ==
    pc = "validated" =>
        /\ val_return.value.extra_sections = <<>>
        /\ val_return.value.page_mismatches = {}
        /\ \A row \in val_return.value.section_comparison : row.status = "OK"

\* the part of C26 that holds: no extra section and every row OK, and no
\* page mismatch when no id is repeated
C26_AgreeWithoutRepeatedId ==
    pc = "validated" =>
        /\ val_return.value.extra_sections = <<>>
        /\ \A row \in val_return.value.section_comparison : row.status = "OK"
        /\ (\A i, j \in 1..Len(val_input.toc_entries) :
                val_input.toc_entries[i].section_id = val_input.toc_entries[j].section_id
                    => val_input.toc_entries[i].page = val_input.toc_entries[j].page)
           => val_return.value.page_mismatches = {}

-----------------------------------------------------------------------------
(* Properties of the JSONL files *)

\* reading the line back gives every field of the object its value
Reproduces(line, object) ==
    \A field \in DOMAIN object :
        /\ field \in DOMAIN JsonLoads(line)
        /\ JsonLoads(line)[field] = object[field]

\* an absent value of the object is the JSON null of the line
AbsentIsNull(line, object) ==
    \A key \in OptionalKeys \cap DOMAIN object :
        object[key] = None => line[key] = JsonNull

\* C15: the line written for a TOCEntry or a DocumentSection, read back,
\* reproduces every field of the object, an absent parent_id or page_end
\* being the JSON null
C15_RecordRoundTrip ==
    DOMAIN output_files # {} =>
        /\ Len(output_files.toc) = Len(parsing_results.toc_entries)
        /\ \A i \in 1..Len(output_files.toc) :
               /\ Reproduces(output_files.toc[i], parsing_results.toc_entries[i])
               /\ AbsentIsNull(output_files.toc[i], parsing_results.toc_entries[i])
        /\ Len(output_files.document) = Len(parsing_results.document_sections)
        /\ \A i \in 1..Len(output_files.document) :
               /\ Reproduces(output_files.document[i], parsing_results.document_sections[i])
               /\ AbsentIsNull(output_files.document[i], parsing_results.document_sections[i])

\* the part of C15 that holds: the sections, and the fields of an entry
\* other than confidence_score and raw_line
C15_SerializedFieldsRoundTrip ==
    DOMAIN output_files # {} =>
        /\ \A i \in 1..Len(output_files.toc) :
               LET entry == parsing_results.toc_entries[i]
               IN  /\ Reproduces(output_files.toc[i],
                                 [field \in DOMAIN entry \ {"confidence_score", "raw_line"} |->
                                     entry[field]])
                   /\ AbsentIsNull(output_files.toc[i], entry)
        /\ \A i \in 1..Len(output_files.document) :
               /\ Reproduces(output_files.document[i], parsing_results.document_sections[i])
               /\ AbsentIsNull(output_files.document[i], parsing_results.document_sections[i])
=============================================================================
